---- MODULE Spec2Model ----
(***************************************************************************)
(* Model of the backtesting engine of unified_backtest.py:                 *)
(* UnifiedBacktester.run_backtest, _simulate_backtest, _execute_rebalance  *)
(* and _store_backtest_results, with the should_rebalance policies of the  *)
(* registered strategies.                                                  *)
(*                                                                         *)
(* Floats are modelled as exact rationals <<numerator, denominator>> in    *)
(* lowest terms; NaN prices are modelled as "no price" (0).                *)
(***************************************************************************)
EXTENDS Integers, Sequences, FiniteSets, TLC

(***************************************************************************)
(* Bounds of the model.                                                    *)
(***************************************************************************)
\* calendar days 1..MaxDate that a date range and the price table can cover
MaxDate == 2

\* run_backtest calls of one caller in the specifications with several runs
MaxCalls == 2

\* trace writes that fail on a faulty trace store
MaxTraceFailures == 2

\* length of the value series the metrics calculator is applied to on its own
MaxValues == 4

\* trading days of a run in a flat market
MaxFlatDays == 4

\* the days the clock of the market data cache runs
MaxClock == 3

(***************************************************************************)
(* Exact rational arithmetic.                                              *)
(***************************************************************************)
RECURSIVE Gcd(_, _)
Gcd(a, b) == IF b = 0 THEN a ELSE Gcd(b, a % b)

Abs(n) == IF n < 0 THEN -n ELSE n

\* the rational n/d (d # 0) in lowest terms with a positive denominator
Rat(n, d) ==
    LET g == Gcd(Abs(n), Abs(d))
        s == IF d < 0 THEN -1 ELSE 1
    IN  <<(s * n) \div g, (s * d) \div g>>

Zero == <<0, 1>>
One == <<1, 1>>
Half == <<1, 2>>
RInt(n) == <<n, 1>>

RAdd(x, y) == Rat(x[1] * y[2] + y[1] * x[2], x[2] * y[2])
RSub(x, y) == Rat(x[1] * y[2] - y[1] * x[2], x[2] * y[2])
RMul(x, y) == Rat(x[1] * y[1], x[2] * y[2])
RDiv(x, y) == Rat(x[1] * y[2], x[2] * y[1])
RAbs(x) == <<Abs(x[1]), x[2]>>
RGt(x, y) == x[1] * y[2] > y[1] * x[2]
RGe(x, y) == x[1] * y[2] >= y[1] * x[2]

\* sum(d.values()) of a dict d whose values are rationals
RECURSIVE RSum(_)
RSum(d) ==
    IF DOMAIN d = {} THEN Zero
    ELSE LET k == CHOOSE k \in DOMAIN d : TRUE
         IN  RAdd(d[k], RSum([j \in DOMAIN d \ {k} |-> d[j]]))

\* sum of a sequence of rationals
RECURSIVE RSumSeq(_)
RSumSeq(s) == IF s = <<>> THEN Zero ELSE RAdd(Head(s), RSumSeq(Tail(s)))

(***************************************************************************)
(* Non-finite floats. A float of the metrics is an exact rational, NaN,    *)
(* +inf, -inf, or a finite non-zero float of known sign whose value is not *)
(* rational (a square root or a power).                                    *)
(***************************************************************************)
NaN == <<0, 0>>
PosInf == <<1, 0>>
NegInf == <<-1, 0>>

\* a finite non-zero float with the sign s (1 or -1), value not tracked
Inexact(s) == <<s, -1>>

\* a complex number: a negative float raised to a fractional power
ComplexValue == <<0, -1>>

IsNaN(x) == x = NaN
IsInf(x) == x[2] = 0 /\ x[1] # 0
IsExact(x) == x[2] > 0

\* -1, 0 or 1; 0 for NaN
Sign(x) == IF x[1] > 0 THEN 1 ELSE IF x[1] < 0 THEN -1 ELSE 0

FNeg(x) == <<-x[1], x[2]>>
FAbs(x) == <<Abs(x[1]), x[2]>>

\* IEEE addition of exact, infinite and NaN values
FAdd(x, y) ==
    IF IsNaN(x) \/ IsNaN(y) THEN NaN
    ELSE IF IsInf(x) /\ IsInf(y) THEN (IF x = y THEN x ELSE NaN)
    ELSE IF IsInf(x) THEN x
    ELSE IF IsInf(y) THEN y
    ELSE RAdd(x, y)

FSub(x, y) == FAdd(x, FNeg(y))

\* IEEE multiplication
FMul(x, y) ==
    IF IsNaN(x) \/ IsNaN(y) THEN NaN
    ELSE IF IsInf(x) \/ IsInf(y)
         THEN (IF Sign(x) * Sign(y) = 0 THEN NaN ELSE <<Sign(x) * Sign(y), 0>>)
    ELSE RMul(x, y)

\* IEEE division as numpy does it: x/0 is +-inf, 0/0 is NaN, nothing raises
FDiv(x, y) ==
    IF IsNaN(x) \/ IsNaN(y) THEN NaN
    ELSE IF IsInf(x) THEN (IF IsInf(y) THEN NaN
                           ELSE <<Sign(x) * (IF Sign(y) < 0 THEN -1 ELSE 1), 0>>)
    ELSE IF IsInf(y) THEN Zero
    ELSE IF y = Zero THEN (IF x = Zero THEN NaN ELSE <<Sign(x), 0>>)
    ELSE RDiv(x, y)

\* x > y; every comparison with NaN is false
FGt(x, y) ==
    IF IsNaN(x) \/ IsNaN(y) \/ x = y THEN FALSE
    ELSE IF x = PosInf \/ y = NegInf THEN TRUE
    ELSE IF x = NegInf \/ y = PosInf THEN FALSE
    ELSE RGt(x, y)

\* sum of a sequence of floats
RECURSIVE FSumSeq(_)
FSumSeq(s) == IF s = <<>> THEN Zero ELSE FAdd(Head(s), FSumSeq(Tail(s)))

\* the elements of rows whose index is in keep, in order
RECURSIVE Pick(_, _, _)
Pick(rows, keep, k) ==
    IF k > Len(rows) THEN <<>>
    ELSE (IF k \in keep THEN <<rows[k]>> ELSE <<>>) \o Pick(rows, keep, k + 1)

(***************************************************************************)
(* Inputs: assets, weights, prices, strategies.                            *)
(***************************************************************************)
\* the assets of a strategy, in the order its dicts are built
AssetOrder == <<"A", "B">>
Assets == {AssetOrder[k] : k \in DOMAIN AssetOrder}

Dates == 1..MaxDate

\* the dict {} (no key)
EmptyDict == [a \in {} |-> Zero]

\* get(d, k, default) of a Python dict
Get(d, k, default) == IF k \in DOMAIN d THEN d[k] ELSE default

\* weight fractions a target vector is built from
WeightLevels == {Zero, Half, One}

\* the weight vectors a strategy's calculate_weights can return: a dict
\* dict(zip(self.assets, weights)) over the first k assets, non-negative weights
\* summing to at most 1
TargetVectors ==
    {t \in UNION {[{AssetOrder[j] : j \in 1..k} -> WeightLevels] :
                     k \in 0..Len(AssetOrder)} :
        RGe(One, RSum(t))}

\* starting capitals of a run
InitialCapitals == {RInt(2), RInt(100)}

\* the price of an asset on a day: NoPrice models NaN / no column
NoPrice == 0
PriceLevels == {100}
PriceRows == [Assets -> {NoPrice} \cup PriceLevels]

(***************************************************************************)
(* The registered strategies.                                              *)
(***************************************************************************)
\* drift band in percentage points (self.drift_bands)
drift_bands == 10

\* drift_bands / 100
DriftThreshold == Rat(drift_bands, 100)

\* the registered strategies, by the should_rebalance they implement
StrategyNames == {"equity_convex_rate", "risk_parity", "equity_crisis_alpha"}

\* equity_convex_rate: calculate_weights is a stub that returns {}
\* the other strategies return a weight per asset, data-dependent
StrategyOutputs(name) ==
    IF name = "equity_convex_rate" THEN {EmptyDict} ELSE TargetVectors

\* some asset's weight is further than the drift band from its target
DriftExceeded(current_weights, target_weights) ==
    \E asset \in Assets :
        RGt(RAbs(RSub(Get(current_weights, asset, Zero),
                      Get(target_weights, asset, Zero))),
            DriftThreshold)

\* equity_crisis_alpha first looks for assets missing from current_weights
MissingAsset(current_weights) ==
    \E asset \in Assets : asset \notin DOMAIN current_weights

\* (mutant) every strategy asks for a rebalance on every day
should_rebalance_Always(name, current_weights, target_weights) == TRUE

\* strategy.should_rebalance(current_weights, target_weights)
should_rebalance(name, current_weights, target_weights) ==
    CASE name = "equity_convex_rate" -> FALSE
      [] name = "equity_crisis_alpha" ->
            MissingAsset(current_weights)
            \/ DriftExceeded(current_weights, target_weights)
      [] OTHER -> DriftExceeded(current_weights, target_weights)

(***************************************************************************)
(* The rebalance executor.                                                 *)
(***************************************************************************)
\* the trade threshold of "if abs(trade_value) > 1.0"
Deadband == RInt(1)

\* d with d[k] set to v (a dict assignment d[k] = v)
Put(d, k, v) == [j \in DOMAIN d \cup {k} |-> IF j = k THEN v ELSE d[j]]

\* (mutant) an asset is only traded at or above the base price level
HasPrice_Affordable(prices, asset) ==
    asset \in DOMAIN prices /\ \A p \in PriceLevels : prices[asset] >= p

\* prices[asset] exists: price_data.loc[date].dropna() has the label
HasPrice(prices, asset) == asset \in DOMAIN prices

\* (mutant) a SELL is booked like a BUY
CashAfterTrade_SellDebits(cash, quantity, trade_value) ==
    RSub(cash, RAbs(trade_value))

\* new cash after a trade: "cash -= abs(trade_value)" on a BUY,
\* "cash += abs(trade_value)" on a SELL
CashAfterTrade(cash, quantity, trade_value) ==
    IF RGt(quantity, Zero) THEN RSub(cash, RAbs(trade_value))
    ELSE RAdd(cash, RAbs(trade_value))

\* (mutant) the threshold itself trades: abs(trade_value) >= 1.0
AboveDeadband_Inclusive(trade_value) == RGe(RAbs(trade_value), RInt(1))

\* "if abs(trade_value) > 1.0"
AboveDeadband(trade_value) == RGt(RAbs(trade_value), Deadband)

\* one iteration of "for asset, target_value in target_values.items()";
\* acc is [cash, new_weights, trades]
TradeAsset(acc, asset, portfolio_value, current_weights, target_weights, prices, trade_date) ==
    LET target_value == RMul(target_weights[asset], portfolio_value)
        current_value ==
            IF asset \in DOMAIN current_weights
            THEN RMul(current_weights[asset], portfolio_value) ELSE Zero
        trade_value == RSub(target_value, current_value)
        price == RInt(prices[asset])
        quantity == RDiv(trade_value, price)
        trade == [symbol |-> asset,
                  action |-> IF RGt(quantity, Zero) THEN "BUY" ELSE "SELL",
                  quantity |-> RAbs(quantity),
                  price |-> price,
                  value |-> RAbs(trade_value),
                  trade_date |-> trade_date]
    IN  IF AboveDeadband(trade_value) /\ HasPrice(prices, asset)
        THEN [cash |-> CashAfterTrade(acc.cash, quantity, trade_value),
              new_weights |->
                  Put(acc.new_weights, asset, RDiv(target_value, portfolio_value)),
              trades |-> Append(acc.trades, trade)]
        ELSE acc

\* the loop over target_values.items(), in the dict's key order
RECURSIVE TradeLoop(_, _, _, _, _, _, _)
TradeLoop(acc, order, portfolio_value, current_weights, target_weights, prices, trade_date) ==
    IF order = <<>> THEN acc
    ELSE TradeLoop(
            IF Head(order) \in DOMAIN target_weights
            THEN TradeAsset(acc, Head(order), portfolio_value, current_weights,
                            target_weights, prices, trade_date)
            ELSE acc,
            Tail(order), portfolio_value, current_weights, target_weights, prices,
            trade_date)

\* "Normalize weights to ensure they sum to 1"
NormalizeWeights(new_weights) ==
    LET total_weight == RSum(new_weights)
    IN  IF RGt(total_weight, Zero)
        THEN [k \in DOMAIN new_weights |-> RDiv(new_weights[k], total_weight)]
        ELSE new_weights

\* _execute_rebalance: (portfolio_value, cash, new_weights, trades)
execute_rebalance(portfolio_value, cash, current_weights, target_weights, prices, trade_date) ==
    LET acc == TradeLoop([cash |-> cash, new_weights |-> EmptyDict, trades |-> <<>>],
                         AssetOrder, portfolio_value, current_weights,
                         target_weights, prices, trade_date)
    IN  [portfolio_value |-> portfolio_value,
         cash |-> acc.cash,
         weights |-> NormalizeWeights(acc.new_weights),
         trades |-> acc.trades]

(***************************************************************************)
(* State.                                                                  *)
(***************************************************************************)
VARIABLES
    calc,              \* the strategies' weight functions, as far as they were
                       \* evaluated: <<strategy, price table it was given>> ->
                       \* weights
    pc,                \* position of the caller in run_backtest
    run,               \* arguments of the run_backtest call in progress
    price_data,        \* the run's price table: date -> price row
    dates,             \* the simulated dates, in order
    i,                 \* number of loop iterations done
    current_weights,
    cash,
    portfolio_value,
    portfolio_values,  \* the trajectory: one entry per simulated day
    trades,            \* the run's trade log
    step,              \* the locals of the last loop iteration
    results,           \* the dict _simulate_backtest returned
    backtest_traces,   \* table backtest_traces
    backtest_results,  \* table backtest_results
    tbl_portfolio_values,  \* table portfolio_values
    tbl_trades,        \* table trades
    now,               \* CURRENT_TIMESTAMP of the results database
    calls,             \* number of run_backtest calls made
    stored_log,        \* history: the results passed to _store_backtest_results
    baseline,          \* history: a finished run kept for comparison with a
                       \* later run
    strategies,        \* self.strategies: the registry, in the order it was
                       \* loaded, each name with its instance (or None)
    error,             \* the exception run_backtest raised, "" if none
    fetches,           \* number of get_price_data calls made
    trace_store,       \* whether an INSERT into backtest_traces can raise, and
                       \* how many did
    batch,             \* the locals of run_all_strategies
    metrics_call,      \* a call of _calculate_performance_metrics on its own:
                       \* the value series it is given and what it returned
    rebalance_call,    \* a call of a strategy's should_rebalance on its own:
                       \* its arguments and what it returned
    market_data,       \* the MarketDataManager: its cache, the clock and its
                       \* last get_price_data call
    runs               \* run_backtest calls in progress at the same time, each
                       \* with the locals of its _simulate_backtest

vars == <<calc, pc, run, price_data, dates, i, current_weights, cash,
          portfolio_value, portfolio_values, trades, step, results,
          backtest_traces, backtest_results, tbl_portfolio_values, tbl_trades, now,
          calls, stored_log, baseline, strategies, error, fetches, trace_store,
          batch, metrics_call,
          rebalance_call, market_data, runs>>

\* what a run_backtest call does not touch
envvars == <<strategies, batch, metrics_call, rebalance_call, market_data, runs>>

simvars == <<price_data, dates, i, current_weights, cash, portfolio_value,
             portfolio_values, trades, step>>

tables == <<backtest_results, tbl_portfolio_values, tbl_trades>>

NoRun == [strategy_name |-> "", start_date |-> 0, end_date |-> 0,
          initial_capital |-> Zero]

NoStep == [date |-> 0, first |-> FALSE, consulted |-> FALSE, decision |-> FALSE,
           executed |-> FALSE, target_weights |-> EmptyDict,
           weights_before |-> EmptyDict, cash_before |-> Zero,
           value_before |-> Zero, current_prices |-> EmptyDict,
           day_trades |-> <<>>, strategy_input |-> <<>>]

\* the metrics record of an empty return series
ZeroMetrics ==
    [total_return |-> Zero, annualized_return |-> Zero, volatility |-> Zero,
     sharpe_ratio |-> Zero, max_drawdown |-> Zero, calmar_ratio |-> Zero,
     win_rate |-> Zero, profit_factor |-> Zero, avg_trade_return |-> Zero,
     num_trades |-> 0]

NoResults == [strategy_name |-> "", start_date |-> 0, end_date |-> 0,
              initial_capital |-> Zero, final_value |-> Zero,
              portfolio_values |-> <<>>, trades |-> <<>>,
              metrics |-> ZeroMetrics]

NoBaseline == [set |-> FALSE, truncated_after |-> 0, results |-> NoResults,
               traces |-> <<>>, tables |-> <<<<>>, <<>>, <<>>>>]

\* no call of the metrics calculator on its own
NoMetricsCall == [values |-> <<>>, returned |-> FALSE, raised |-> "",
                  metrics |-> ZeroMetrics]

\* run_all_strategies is not running
NoBatch == [state |-> "none", queue |-> <<>>, all_results |-> <<>>,
            start_date |-> 0, end_date |-> 0, initial_capital |-> Zero]

\* should_rebalance was not called
NoRebalanceCall ==
    [name |-> "", current_weights |-> EmptyDict, target_weights |-> EmptyDict,
     returned |-> FALSE, result |-> FALSE]

\* a price table without rows (pd.DataFrame())
EmptyTable == [d \in {} |-> 0]

\* a manager with an empty cache that was not called
NoMarketData ==
    [cache |-> [d \in {} |-> [price |-> 0, created_at |-> 0]], clock |-> 0,
     called |-> FALSE, start_date |-> 0, end_date |-> 0, force_refresh |-> FALSE,
     fetched |-> FALSE, fresh_data |-> EmptyTable, returned |-> EmptyTable]

\* no run_backtest call in progress
NoRuns == [p \in {} |-> NoRun]

\* the order in which _load_all_strategies found the strategy directories
LoadOrder == <<"equity_convex_rate", "risk_parity", "equity_crisis_alpha">>

\* self.strategies: for each strategy directory in order, the name and whether
\* strategy_class(config) gave an instance (otherwise the entry is None)
RegistryOf(order, broken) ==
    [k \in DOMAIN order |-> [name |-> order[k], instance |-> order[k] \notin broken]]

\* (mutant) any name is taken as registered
IsRegistered_Anything(registry, name) == TRUE

\* "strategy_name in self.strategies"
IsRegistered(registry, name) ==
    \E k \in DOMAIN registry : registry[k].name = name

\* self.strategies[strategy_name] is an instance, not None
HasInstance(registry, name) ==
    \E k \in DOMAIN registry : registry[k].name = name /\ registry[k].instance

\* the trace store of a backtester
WorkingTraceStore == [faulty |-> FALSE, failures |-> 0]
FaultyTraceStore == [faulty |-> TRUE, failures |-> 0]

\* a backtester after __init__, with the given registry and trace store, and
\* the given call of the metrics calculator to make
InitWith(registry, store, call) ==
    /\ calc = [k \in {} |-> EmptyDict]
    /\ pc = "idle"
    /\ run = NoRun
    /\ price_data = [d \in {} |-> [a \in Assets |-> NoPrice]]
    /\ dates = <<>>
    /\ i = 0
    /\ current_weights = EmptyDict
    /\ cash = Zero
    /\ portfolio_value = Zero
    /\ portfolio_values = <<>>
    /\ trades = <<>>
    /\ step = NoStep
    /\ results = NoResults
    /\ backtest_traces = <<>>
    /\ backtest_results = <<>>
    /\ tbl_portfolio_values = <<>>
    /\ tbl_trades = <<>>
    /\ now = 0
    /\ calls = 0
    /\ stored_log = <<>>
    /\ baseline = NoBaseline
    /\ strategies = registry
    /\ error = ""
    /\ fetches = 0
    /\ trace_store = store
    /\ batch = NoBatch
    /\ metrics_call = call
    /\ rebalance_call = NoRebalanceCall
    /\ market_data = NoMarketData
    /\ runs = NoRuns

\* every strategy directory loaded, working trace store
Init == InitWith(RegistryOf(LoadOrder, {}), WorkingTraceStore, NoMetricsCall)

(***************************************************************************)
(* run_backtest: fetch the prices and set up the simulation.               *)
(***************************************************************************)
\* what MarketDataManager.get_price_data(assets, start_date, end_date) can
\* return: a date-indexed table of price rows, empty on failure (the engine
\* does not rely on the provider to respect the requested range)
PriceTables == UNION {[D -> PriceRows] : D \in SUBSET Dates}

\* the increasing sequence of the elements of a set of dates
RECURSIVE SortedSeq(_)
SortedSeq(S) ==
    IF S = {} THEN <<>>
    ELSE LET m == CHOOSE m \in S : \A x \in S : m <= x
         IN  <<m>> \o SortedSeq(S \ {m})

\* (mutant) every row of the table is simulated, whatever the range
TradingDays_WholeTable(table, start_date, end_date) == SortedSeq(DOMAIN table)

\* dates = [d for d in pd.date_range(start_date, end_date) if d in price_data.index]
TradingDays(table, start_date, end_date) ==
    SortedSeq({d \in start_date..end_date : d \in DOMAIN table})

\* the row _log_trace_event inserts into backtest_traces
TraceEvent(r, level, category, date) ==
    [strategy_name |-> r.strategy_name, start_date |-> r.start_date,
     end_date |-> r.end_date, level |-> level, category |-> category, date |-> date]

\* which of the INSERTs of a sequence of trace events can raise: none on a
\* working trace store, any of them on a faulty one
TraceFailures(events) ==
    IF ~trace_store.faulty THEN {{}}
    ELSE {F \in SUBSET DOMAIN events :
             trace_store.failures + Cardinality(F) <= MaxTraceFailures}

\* the trace store after the INSERTs with an index in failed raised
AfterFailures(store, failed) ==
    [store EXCEPT !.failures = @ + Cardinality(failed)]

\* (mutant) _log_trace_event lets the exception of the INSERT through
TraceErrorPropagates_Reraised(failed) == failed # {}

\* _log_trace_event: "except Exception as e: self.logger.warning(...)", the
\* exception of a failed INSERT does not leave _log_trace_event
TraceErrorPropagates(failed) == FALSE

\* backtest_traces after the _log_trace_event calls for events, of which the
\* INSERTs with an index in failed raised
log_trace_events(table, events, failed) ==
    table \o Pick(events, DOMAIN events \ failed, 1)

\* (mutant) an empty price table is not noticed
IsEmpty_Never(table) == FALSE

\* price_data.empty
IsEmpty(table) == DOMAIN table = {}

\* the exceptions run_backtest raises
UnknownStrategy == "ValueError: Strategy not found"
NoInstance == "AttributeError: 'NoneType' object has no attribute 'get_assets'"
DataUnavailable == "ValueError: No price data available"
NoTradingDay == "KeyError: 'date'"
TraceWriteFailure == "Exception: failed to log trace event"

\* run_backtest up to the start of the loop; table is what get_price_data
\* returns if it is called
RunBacktest(name, start_date, end_date, initial_capital, table) ==
    /\ pc = "idle"
    /\ LET r == [strategy_name |-> name, start_date |-> start_date,
                 end_date |-> end_date, initial_capital |-> initial_capital]
           events == <<TraceEvent(r, "INFO", "BACKTEST", 0),
                       TraceEvent(r, "INFO", "PORTFOLIO", 0)>>
       IN  /\ run' = r
           /\ IF ~IsRegistered(strategies, name)
              THEN \* raise ValueError(f"Strategy {strategy_name} not found")
                   /\ pc' = "failed"
                   /\ error' = UnknownStrategy
                   /\ UNCHANGED <<simvars, backtest_traces, fetches, trace_store>>
              ELSE IF ~HasInstance(strategies, name)
              THEN \* strategy is None: strategy.get_assets() raises
                   /\ pc' = "failed"
                   /\ error' = NoInstance
                   /\ UNCHANGED <<simvars, backtest_traces, fetches, trace_store>>
              ELSE IF IsEmpty(table)
              THEN \* raise ValueError("No price data available ...")
                   /\ pc' = "failed"
                   /\ error' = DataUnavailable
                   /\ fetches' = fetches + 1
                   /\ price_data' = table
                   /\ UNCHANGED <<dates, i, current_weights, cash, portfolio_value,
                                  portfolio_values, trades, step, backtest_traces,
                                  trace_store>>
              ELSE \E failed \in TraceFailures(events) :
                   /\ pc' = IF TraceErrorPropagates(failed) THEN "failed"
                            ELSE "simulating"
                   /\ error' = IF TraceErrorPropagates(failed)
                               THEN TraceWriteFailure ELSE ""
                   /\ fetches' = fetches + 1
                   /\ price_data' = table
                   /\ dates' = TradingDays(table, start_date, end_date)
                   /\ i' = 0
                   /\ current_weights' = EmptyDict
                   /\ cash' = initial_capital
                   /\ portfolio_value' = initial_capital
                   /\ portfolio_values' = <<>>
                   /\ trades' = <<>>
                   /\ step' = NoStep
                   /\ backtest_traces' =
                          log_trace_events(backtest_traces, events, failed)
                   /\ trace_store' = AfterFailures(trace_store, failed)
    /\ calls' = calls + 1
    /\ UNCHANGED <<calc, results, tables, now, stored_log, envvars>>

(***************************************************************************)
(* _simulate_backtest: one iteration of "for i, date in enumerate(dates)". *)
(***************************************************************************)
\* price_data.loc[date].dropna(): the assets that have a price on the day
DropNa(row) == [a \in {a \in DOMAIN row : row[a] # NoPrice} |-> row[a]]

\* (mutant) the strategy is handed the whole table
LocUpTo_WholeTable(table, date) == table

\* price_data.loc[:date]: the rows up to and including date
LocUpTo(table, date) == [d \in {d \in DOMAIN table : d <= date} |-> table[d]]

\* (mutant) the first day is not forced
RebalanceDecision_FirstDayAsks(first, name, weights, target_weights) ==
    should_rebalance(name, weights, target_weights)

\* (mutant) every day rebalances
RebalanceDecision_Always(first, name, weights, target_weights) == TRUE

\* the rebalance decision of the day: the first day always rebalances, the
\* other days ask the strategy
RebalanceDecision(first, name, weights, target_weights) ==
    IF first THEN TRUE ELSE should_rebalance(name, weights, target_weights)

\* (mutant) the revaluation forgets the cash
Revalue_NoCash(weights, value, cash_) ==
    IF DOMAIN weights # {}
    THEN RSum([a \in DOMAIN weights |-> RMul(weights[a], value)])
    ELSE value

\* "Update portfolio value based on price changes"
Revalue(weights, value, cash_) ==
    IF DOMAIN weights # {}
    THEN RAdd(RSum([a \in DOMAIN weights |-> RMul(weights[a], value)]), cash_)
    ELSE value

\* (mutant) a drift-triggered rebalance is not announced
DayTraces_DriftSilent(r, date, first, decision) ==
    (IF decision
     THEN (IF first THEN <<TraceEvent(r, "INFO", "REBALANCE", date)>> ELSE <<>>)
          \o <<TraceEvent(r, "DEBUG", "WEIGHT_CALC", date),
               TraceEvent(r, "INFO", "TRADE", date)>>
     ELSE <<>>)

\* the trace events of one day
DayTraces(r, date, first, decision) ==
    (IF decision THEN <<TraceEvent(r, "INFO", "REBALANCE", date),
                        TraceEvent(r, "DEBUG", "WEIGHT_CALC", date),
                        TraceEvent(r, "INFO", "TRADE", date)>>
     ELSE <<>>)

\* outputs: the weight vectors the strategy's calculate_weights may return
SimulateDayWith(outputs) ==
    /\ pc = "simulating"
    /\ i < Len(dates)
    /\ LET date == dates[i + 1]
           current_prices == DropNa(price_data[date])
           first == (i = 0)
           key == <<run.strategy_name, LocUpTo(price_data, date)>>
       IN  \E target_weights \in outputs :
            \* strategy.calculate_weights(price_data.loc[:date]) is a function
            \* of its argument
            /\ key \in DOMAIN calc => calc[key] = target_weights
            /\ calc' = Put(calc, key, target_weights)
            /\ LET decision == RebalanceDecision(first, run.strategy_name,
                                                 current_weights, target_weights)
               IN  \E ex \in {IF decision
                              THEN execute_rebalance(portfolio_value, cash,
                                       current_weights, target_weights,
                                       current_prices, date)
                              ELSE [portfolio_value |-> portfolio_value,
                                    cash |-> cash, weights |-> current_weights,
                                    trades |-> <<>>]} :
                   \E value \in {Revalue(ex.weights, ex.portfolio_value, ex.cash)} :
                   /\ current_weights' = ex.weights
                   /\ cash' = ex.cash
                   /\ trades' = trades \o ex.trades
                   /\ portfolio_value' = value
                   /\ portfolio_values' = Append(portfolio_values,
                          [date |-> date, portfolio_value |-> value,
                           cash |-> ex.cash, weights |-> ex.weights])
                   /\ \E failed \in TraceFailures(
                                         DayTraces(run, date, first, decision)) :
                          /\ backtest_traces' = log_trace_events(backtest_traces,
                                 DayTraces(run, date, first, decision), failed)
                          /\ pc' = IF TraceErrorPropagates(failed) THEN "failed"
                                   ELSE pc
                          /\ error' = IF TraceErrorPropagates(failed)
                                      THEN TraceWriteFailure ELSE error
                          /\ trace_store' = AfterFailures(trace_store, failed)
                   /\ step' = [date |-> date, first |-> first,
                               consulted |-> ~first, decision |-> decision,
                               executed |-> decision,
                               target_weights |-> target_weights,
                               weights_before |-> current_weights,
                               cash_before |-> cash,
                               value_before |-> portfolio_value,
                               current_prices |-> current_prices,
                               day_trades |-> ex.trades,
                               strategy_input |-> key[2]]
    /\ i' = i + 1
    /\ UNCHANGED <<run, price_data, dates, results, tables, now, calls,
                   stored_log, baseline, fetches, envvars>>

SimulateDay == SimulateDayWith(StrategyOutputs(run.strategy_name))

(***************************************************************************)
(* _simulate_backtest after the loop: metrics and the returned dict.       *)
(***************************************************************************)
\* portfolio_df["portfolio_value"].pct_change().dropna(): v[k+1] / v[k] - 1,
\* NaN (0/0) dropped, +-inf (x/0) kept
RECURSIVE PctChange(_)
PctChange(values) ==
    IF Len(values) < 2 THEN <<>>
    ELSE LET change == FSub(FDiv(values[2], values[1]), One)
         IN  (IF IsNaN(change) THEN <<>> ELSE <<change>>) \o PctChange(Tail(values))

\* (mutant) the sanitizer lets every value through
sanitize_float_Identity(value) == value

\* _sanitize_float
sanitize_float(value) ==
    IF value = PosInf \/ value = NegInf THEN <<999, 1>>
    ELSE IF IsNaN(value) THEN Zero
    ELSE value

\* "total_return = (final_value / initial_value) - 1" divides two Python
\* floats: a zero initial_value raises ZeroDivisionError
MetricsRaise(returns, initial_value, final_value) ==
    Len(returns) > 0 /\ initial_value = Zero

\* (final_value / initial_value) ** (252 / len(returns)) - 1, by the case of
\* the ratio: exactly 0 for a ratio of 1, exactly -1 for a ratio of 0, else a
\* finite float of the sign of |ratio| - 1 (even exponent) or of ratio - 1
AnnualizedReturn(ratio, n) ==
    LET whole == (252 % n = 0)
        even == whole /\ ((252 \div n) % 2 = 0)
        base == IF even THEN RAbs(ratio) ELSE ratio
    IN  IF ~whole /\ Sign(ratio) < 0 THEN ComplexValue
        ELSE IF base = One THEN Zero
        ELSE IF base = Zero THEN <<-1, 1>>
        ELSE IF base = <<-1, 1>> THEN <<-2, 1>>
        ELSE Inexact(IF RGt(base, One) THEN 1 ELSE -1)

\* returns.std() * np.sqrt(252): NaN for fewer than two returns (ddof = 1) or
\* an infinite return, 0 for equal returns, else a positive float
Volatility(returns) ==
    IF Len(returns) < 2 \/ \E k \in DOMAIN returns : IsInf(returns[k]) THEN NaN
    ELSE IF \A k \in DOMAIN returns : returns[k] = returns[1] THEN Zero
    ELSE Inexact(1)

\* annualized_return / volatility if volatility > 0 and finite, else 0
SharpeRatio(annualized_return, volatility) ==
    IF volatility = Inexact(1)
    THEN (IF annualized_return = Zero THEN Zero
          ELSE Inexact(Sign(annualized_return)))
    ELSE Zero

\* (1 + returns).cumprod()
RECURSIVE CumProd(_, _)
CumProd(returns, acc) ==
    IF returns = <<>> THEN <<>>
    ELSE LET c == FMul(acc, FAdd(One, Head(returns)))
         IN  <<c>> \o CumProd(Tail(returns), c)

\* the largest (or smallest) of the values of a sequence that are not NaN; NaN
\* if there is none
MaxSkipNa(xs) ==
    LET S == {xs[k] : k \in DOMAIN xs} \ {NaN}
    IN  IF S = {} THEN NaN ELSE CHOOSE m \in S : \A x \in S : ~FGt(x, m)

MinSkipNa(xs) ==
    LET S == {xs[k] : k \in DOMAIN xs} \ {NaN}
    IN  IF S = {} THEN NaN ELSE CHOOSE m \in S : \A x \in S : ~FGt(m, x)

\* cumulative.expanding().max()
RunningMax(cumulative) ==
    [k \in DOMAIN cumulative |-> MaxSkipNa(SubSeq(cumulative, 1, k))]

\* (mutant) the drawdown is measured as a gain over the running maximum
Drawdown_Positive(cumulative, running_max) ==
    [k \in DOMAIN cumulative |->
        FDiv(FSub(running_max[k], cumulative[k]), running_max[k])]

\* drawdown = (cumulative - running_max) / running_max
Drawdown(cumulative, running_max) ==
    [k \in DOMAIN cumulative |->
        FDiv(FSub(cumulative[k], running_max[k]), running_max[k])]

\* max_drawdown = drawdown.min()
MaxDrawdown(returns) ==
    LET cumulative == CumProd(returns, One)
    IN  MinSkipNa(Drawdown(cumulative, RunningMax(cumulative)))

\* annualized_return / abs(max_drawdown) if max_drawdown is not 0, inf or
\* -inf (a NaN max_drawdown passes the test), else 0
CalmarRatio(annualized_return, max_drawdown) ==
    IF max_drawdown # Zero /\ ~IsInf(max_drawdown)
    THEN (IF IsNaN(max_drawdown) THEN NaN
          ELSE IF IsExact(annualized_return)
               THEN RDiv(annualized_return, RAbs(max_drawdown))
          ELSE Inexact(Sign(annualized_return)))
    ELSE Zero

\* the returns of a series that are > 0 (sign 1) or < 0 (sign -1)
ReturnsOfSign(returns, sign) ==
    Pick(returns, {k \in DOMAIN returns : Sign(returns[k]) = sign}, 1)

\* (mutant) without a losing day the quotient is taken anyway
ProfitFactor_Unguarded(returns) ==
    FDiv(FSumSeq(ReturnsOfSign(returns, 1)),
         FAbs(FSumSeq(ReturnsOfSign(returns, -1))))

\* positive_returns / negative_returns if negative_returns > 0 else 999.0
ProfitFactor(returns) ==
    LET positive_returns == FSumSeq(ReturnsOfSign(returns, 1))
        negative_returns == FAbs(FSumSeq(ReturnsOfSign(returns, -1)))
    IN  IF FGt(negative_returns, Zero)
        THEN FDiv(positive_returns, negative_returns)
        ELSE <<999, 1>>

\* _calculate_performance_metrics, where it returns
calculate_performance_metrics(returns, initial_value, final_value) ==
    IF Len(returns) = 0
    THEN ZeroMetrics
    ELSE LET n == Len(returns)
             ratio == RDiv(final_value, initial_value)
             annualized_return == AnnualizedReturn(ratio, n)
             volatility == Volatility(returns)
             max_drawdown == MaxDrawdown(returns)
         IN  [total_return |-> sanitize_float(RSub(ratio, One)),
              annualized_return |-> sanitize_float(annualized_return),
              volatility |-> sanitize_float(volatility),
              sharpe_ratio |->
                  sanitize_float(SharpeRatio(annualized_return, volatility)),
              max_drawdown |-> sanitize_float(max_drawdown),
              calmar_ratio |->
                  sanitize_float(CalmarRatio(annualized_return, max_drawdown)),
              win_rate |->
                  sanitize_float(Rat(Len(ReturnsOfSign(returns, 1)), n)),
              profit_factor |-> sanitize_float(ProfitFactor(returns)),
              avg_trade_return |->
                  sanitize_float(FDiv(FSumSeq(returns), RInt(n))),
              num_trades |-> n]

\* the values of the trajectory
TrajectoryValues ==
    [k \in DOMAIN portfolio_values |-> portfolio_values[k].portfolio_value]

\* the dict _simulate_backtest returns
SimulationResults ==
    LET values == TrajectoryValues
    IN  [strategy_name |-> run.strategy_name,
         start_date |-> run.start_date,
         end_date |-> run.end_date,
         initial_capital |-> run.initial_capital,
         final_value |-> portfolio_value,
         portfolio_values |-> portfolio_values,
         trades |-> trades,
         metrics |-> calculate_performance_metrics(
                         PctChange(values), values[1], values[Len(values)])]

(***************************************************************************)
(* _store_backtest_results.                                                *)
(***************************************************************************)
\* (mutant) the keys of the results tables without the strategy name
KeyOf_NoStrategy(table_name, row) ==
    CASE table_name = "backtest_results" -> <<row.start_date, row.end_date>>
      [] table_name = "portfolio_values" -> <<row.date>>
      [] table_name = "trades" -> <<row.trade_date, row.symbol, row.action>>

\* the natural key of a row: the PRIMARY KEY of its table, which is also the
\* WHERE clause of the existence check before each INSERT
KeyOf(table_name, row) ==
    CASE table_name = "backtest_results" ->
            <<row.strategy_name, row.start_date, row.end_date>>
      [] table_name = "portfolio_values" -> <<row.strategy_name, row.date>>
      [] table_name = "trades" ->
            <<row.strategy_name, row.trade_date, row.symbol, row.action>>

\* (mutant) the existence check never finds a row
Existing_Never(table_name, table, key) == FALSE

\* "SELECT 1 FROM <table> WHERE <key>" finds a row
Existing(table_name, table, key) ==
    \E k \in DOMAIN table : KeyOf(table_name, table[k]) = key

\* "if not existing: INSERT"
InsertIfAbsent(table_name, table, row) ==
    IF Existing(table_name, table, KeyOf(table_name, row)) THEN table
    ELSE Append(table, row)

\* the loop "for ... : if not existing: INSERT" over rows
RECURSIVE InsertAll(_, _, _)
InsertAll(table_name, table, rows) ==
    IF rows = <<>> THEN table
    ELSE InsertAll(table_name, InsertIfAbsent(table_name, table, Head(rows)),
                   Tail(rows))

SummaryRow(name, res, created_at) ==
    [strategy_name |-> name, start_date |-> res.start_date,
     end_date |-> res.end_date, total_return |-> res.metrics.total_return,
     annualized_return |-> res.metrics.annualized_return,
     volatility |-> res.metrics.volatility,
     sharpe_ratio |-> res.metrics.sharpe_ratio,
     max_drawdown |-> res.metrics.max_drawdown,
     calmar_ratio |-> res.metrics.calmar_ratio,
     win_rate |-> res.metrics.win_rate,
     profit_factor |-> res.metrics.profit_factor,
     avg_trade_return |-> res.metrics.avg_trade_return,
     num_trades |-> res.metrics.num_trades, created_at |-> created_at]

ValueRow(name, entry, created_at) ==
    [strategy_name |-> name, date |-> entry.date,
     portfolio_value |-> entry.portfolio_value, cash |-> entry.cash,
     weights |-> entry.weights, created_at |-> created_at]

TradeRow(name, trade, created_at) ==
    [strategy_name |-> name, trade_date |-> trade.trade_date,
     symbol |-> trade.symbol, action |-> trade.action,
     quantity |-> trade.quantity, price |-> trade.price, value |-> trade.value,
     created_at |-> created_at]

\* _store_backtest_results(strategy_name, results) at time created_at
store_backtest_results(name, res, created_at) ==
    /\ backtest_results' =
           InsertIfAbsent("backtest_results", backtest_results,
                          SummaryRow(name, res, created_at))
    /\ tbl_portfolio_values' =
           InsertAll("portfolio_values", tbl_portfolio_values,
                     [k \in DOMAIN res.portfolio_values |->
                         ValueRow(name, res.portfolio_values[k], created_at)])
    /\ tbl_trades' =
           InsertAll("trades", tbl_trades,
                     [k \in DOMAIN res.trades |->
                         TradeRow(name, res.trades[k], created_at)])

ZeroDivision == "ZeroDivisionError: float division by zero"

\* (mutant) the run ends without its summary event
FinalTraces_Silent(r) == <<>>

\* "Log completion": the trace event after the loop
FinalTraces(r) == <<TraceEvent(r, "INFO", "PERFORMANCE", 0)>>

\* the end of run_backtest: the loop is over, _simulate_backtest computes the
\* metrics, logs PERFORMANCE and returns; the results are stored and returned.
\* With no simulated day, pd.DataFrame([]).set_index("date") raises KeyError.
FinishRun ==
    /\ pc = "simulating"
    /\ i = Len(dates)
    /\ IF Len(dates) = 0
       THEN /\ pc' = "failed"
            /\ error' = NoTradingDay
            /\ UNCHANGED <<results, backtest_traces, tables, now, stored_log,
                           trace_store>>
       ELSE IF MetricsRaise(PctChange(TrajectoryValues), TrajectoryValues[1],
                            portfolio_value)
       THEN /\ pc' = "failed"
            /\ error' = ZeroDivision
            /\ UNCHANGED <<results, backtest_traces, tables, now, stored_log,
                           trace_store>>
       ELSE \E failed \in TraceFailures(FinalTraces(run)) :
            IF TraceErrorPropagates(failed)
            THEN /\ pc' = "failed"
                 /\ error' = TraceWriteFailure
                 /\ UNCHANGED <<results, backtest_traces, tables, now, stored_log,
                           trace_store>>
            ELSE \E res \in {SimulationResults} :
                 /\ results' = res
                 /\ backtest_traces' = log_trace_events(backtest_traces,
                        FinalTraces(run), failed)
                 /\ store_backtest_results(run.strategy_name, res, now)
                 /\ stored_log' = Append(stored_log, res)
                 /\ now' = now + 1
                 /\ pc' = "done"
                 /\ error' = ""
                 /\ trace_store' = AfterFailures(trace_store, failed)
    /\ UNCHANGED <<calc, run, simvars, calls, baseline, fetches, envvars>>

(***************************************************************************)
(* The caller.                                                             *)
(***************************************************************************)
Call ==
    /\ pc = "idle"
    /\ calls = 0
    /\ \E name \in StrategyNames, start_date \in Dates, end_date \in Dates,
          initial_capital \in InitialCapitals :
           /\ start_date <= end_date
           /\ \E table \in PriceTables :
                  RunBacktest(name, start_date, end_date, initial_capital, table)
    /\ UNCHANGED baseline

Next == Call \/ SimulateDay \/ FinishRun

\* one run_backtest call on any price table, strategy, date range and capital
Spec == Init /\ [][Next]_vars

(***************************************************************************)
(* Several runs of one caller.                                             *)
(***************************************************************************)
\* run_backtest returned (or raised) and the caller goes on
Return ==
    /\ pc \in {"done", "failed"}
    /\ calls < MaxCalls
    /\ pc' = "idle"
    /\ UNCHANGED <<calc, run, simvars, results, backtest_traces, tables, now,
                   calls, stored_log, baseline, error, fetches, trace_store,
                   envvars>>

\* a price row with a price for every asset
FullRow == [a \in Assets |-> CHOOSE p \in PriceLevels : TRUE]

\* the price table with a full row on each day first..last
FullTable(first, last) == [d \in first..last |-> FullRow]

\* weight vectors of the strategy in the runs that exercise the results store
StoreTargets ==
    {t \in TargetVectors : DOMAIN t = Assets /\ RSum(t) = One}

\* calls whose results go to the same results database: two strategies, both
\* capitals, date ranges that share days
CallStore ==
    /\ pc = "idle"
    /\ \E name \in {"equity_convex_rate", "risk_parity"}, end_date \in Dates,
          initial_capital \in InitialCapitals :
           RunBacktest(name, 1, end_date, initial_capital, FullTable(1, end_date))
    /\ UNCHANGED baseline

\* the strategies return fully invested weights over all assets (or {}, for
\* the stub) in these runs
StoreDay ==
    SimulateDayWith(StrategyOutputs(run.strategy_name)
                        \cap (StoreTargets \cup {EmptyDict}))

NextStore == CallStore \/ StoreDay \/ FinishRun \/ Return

\* one run_backtest call of any strategy over any date range, on a price table
\* with or without a missing price
CallOnce ==
    /\ pc = "idle"
    /\ calls = 0
    /\ \E name \in StrategyNames, start_date \in Dates, end_date \in Dates,
          initial_capital \in InitialCapitals :
           \E table \in {FullTable(1, MaxDate),
                          [FullTable(1, MaxDate)
                               EXCEPT ![MaxDate][AssetOrder[1]] = NoPrice]} :
               RunBacktest(name, start_date, end_date, initial_capital, table)
    /\ UNCHANGED baseline

NextLive == CallOnce \/ StoreDay \/ FinishRun

\* the step of FinishRun, by its guard and what it does to pc: the code after
\* the loop runs to the return or the raise of run_backtest
AfterLoop ==
    /\ pc = "simulating"
    /\ i = Len(dates)
    /\ pc' \in {"done", "failed"}

\* a run that is let run on: the for loop takes its next date and the code
\* after the loop is executed
SpecLive ==
    Init /\ [][NextLive]_vars /\ WF_vars(StoreDay) /\ WF_pc(AfterLoop)

\* up to MaxCalls run_backtest calls, one after the other, on one results
\* database
SpecStore == Init /\ [][NextStore]_vars

(***************************************************************************)
(* Calls that fail before the simulation.                                  *)
(***************************************************************************)
\* a strategy name without a strategy directory
UnknownNames == {"no_such_strategy"}

\* calls on one backtester with registered and unregistered names, to which
\* the provider returns every day of the range or nothing
CallAny ==
    /\ pc = "idle"
    /\ \E name \in {"equity_convex_rate", "risk_parity"} \cup UnknownNames,
          end_date \in Dates, initial_capital \in InitialCapitals :
           \E table \in {FullTable(1, 0), FullTable(1, end_date)} :
               RunBacktest(name, 1, end_date, initial_capital, table)
    /\ UNCHANGED baseline

NextErrors == CallAny \/ StoreDay \/ FinishRun \/ Return

SpecErrors == Init /\ [][NextErrors]_vars

(***************************************************************************)
(* run_all_strategies.                                                     *)
(***************************************************************************)
\* the registries of the batch runs: two or three strategy directories in some
\* order, of which risk_parity may have failed to instantiate
BatchRegistries ==
    {RegistryOf(order, broken) :
        order \in {o \in StrategyNames \X StrategyNames : o[1] # o[2]}
                      \cup {LoadOrder},
        broken \in SUBSET {"risk_parity"}}

InitBatch ==
    \E registry \in BatchRegistries :
        InitWith(registry, WorkingTraceStore, NoMetricsCall)

\* what the provider returns to a run of the batch: nothing, the first day
\* only, or every day
BatchTables ==
    {FullTable(1, 0), FullTable(1, 1), FullTable(1, MaxDate)}

\* run_all_strategies(start_date, end_date, initial_capital): all_results = {}
StartBatch ==
    /\ pc = "idle"
    /\ batch.state = "none"
    /\ \E start_date \in Dates :
           batch' = [state |-> "running",
                     queue |-> [k \in DOMAIN strategies |-> strategies[k].name],
                     all_results |-> <<>>,
                     start_date |-> start_date, end_date |-> MaxDate,
                     initial_capital |-> RInt(100)]
    /\ UNCHANGED <<calc, pc, run, simvars, results, backtest_traces, tables, now,
                   calls, stored_log, baseline, strategies, error, fetches,
                   trace_store, metrics_call, rebalance_call,
                   market_data, runs>>

\* "results = self.run_backtest(strategy_name, ...)" for the next strategy
BatchRun ==
    /\ batch.state = "running"
    /\ pc = "idle"
    /\ batch.queue # <<>>
    /\ \E table \in BatchTables :
           RunBacktest(Head(batch.queue), batch.start_date, batch.end_date,
                       batch.initial_capital, table)
    /\ UNCHANGED baseline

\* (mutant) an exception of run_backtest ends the loop
RemainingAfter_Abort(queue, raised) == IF raised THEN <<>> ELSE Tail(queue)

\* the strategies still to run after one ran: the try/except in the loop body
\* catches what run_backtest raises and the loop goes on
RemainingAfter(queue, raised) == Tail(queue)

\* all_results[strategy_name]: the results, or {"error": str(e)}
BatchEntry(raised, res, err) == IF raised THEN [error |-> err] ELSE res

\* run_backtest returned or raised: the entry of the strategy is written
BatchRecord ==
    /\ batch.state = "running"
    /\ pc \in {"done", "failed"}
    /\ batch' = [batch EXCEPT
                    !.all_results = Put(@, Head(batch.queue),
                                        BatchEntry(pc = "failed", results, error)),
                    !.queue = RemainingAfter(@, pc = "failed")]
    /\ pc' = "idle"
    /\ UNCHANGED <<calc, run, simvars, results, backtest_traces, tables, now,
                   calls, stored_log, baseline, strategies, error, fetches,
                   trace_store, metrics_call, rebalance_call,
                   market_data, runs>>

\* "return all_results"
BatchReturn ==
    /\ batch.state = "running"
    /\ pc = "idle"
    /\ batch.queue = <<>>
    /\ batch' = [batch EXCEPT !.state = "returned"]
    /\ UNCHANGED <<calc, pc, run, simvars, results, backtest_traces, tables, now,
                   calls, stored_log, baseline, strategies, error, fetches,
                   trace_store, metrics_call, rebalance_call,
                   market_data, runs>>

NextBatch ==
    StartBatch \/ BatchRun \/ StoreDay \/ FinishRun \/ BatchRecord \/ BatchReturn

\* one run_all_strategies call
SpecBatch == InitBatch /\ [][NextBatch]_vars

(***************************************************************************)
(* A run, then the same run on the price table truncated after a day.      *)
(***************************************************************************)
\* the price table without the rows after day d
Truncate(table, d) == [x \in {x \in DOMAIN table : x <= d} |-> table[x]]

\* price rows of the runs that are compared: every asset priced, or the first
\* asset without a price
CompareRows == {FullRow, [FullRow EXCEPT ![AssetOrder[1]] = NoPrice]}

CompareTables == UNION {[D -> CompareRows] : D \in SUBSET Dates}

\* the first run: a drift-band strategy over the whole calendar
CallFull ==
    /\ pc = "idle"
    /\ calls = 0
    /\ \E name \in {"risk_parity", "equity_crisis_alpha"},
          table \in CompareTables :
           RunBacktest(name, 1, MaxDate, RInt(100), table)
    /\ UNCHANGED baseline

\* the second run: same strategy, range and capital, on the table of the first
\* run truncated after day d
CallTruncated ==
    /\ pc = "idle"
    /\ calls = 1
    /\ results # NoResults
    /\ \E d \in Dates :
           /\ baseline' = [set |-> TRUE, truncated_after |-> d,
                           results |-> results, traces |-> backtest_traces,
                           tables |-> tables]
           /\ RunBacktest(run.strategy_name, run.start_date, run.end_date,
                          run.initial_capital, Truncate(price_data, d))

NextLookAhead == CallFull \/ SimulateDay \/ FinishRun \/ Return \/ CallTruncated

SpecLookAhead == Init /\ [][NextLookAhead]_vars

(***************************************************************************)
(* A run, then the same run on a price table with other positive prices.   *)
(***************************************************************************)
\* the prices of the second run
RepricedLevels == {50, 200}

\* the tables with the dates and the priced assets of table, and other prices:
\* a price per asset, or a price per day
Repricings(table) ==
    {[d \in DOMAIN table |->
         [a \in Assets |-> IF table[d][a] = NoPrice THEN NoPrice ELSE level[a]]] :
        level \in [Assets -> RepricedLevels]}
    \cup
    {[d \in DOMAIN table |->
         [a \in Assets |-> IF table[d][a] = NoPrice THEN NoPrice ELSE level[d]]] :
        level \in [DOMAIN table -> RepricedLevels]}

\* the table of the first run that a repriced table was made from
OriginalOf(table) ==
    [d \in DOMAIN table |->
        [a \in Assets |-> IF table[d][a] = NoPrice THEN NoPrice
                          ELSE CHOOSE p \in PriceLevels : TRUE]]

\* the first run: a drift-band strategy over the whole calendar, on a table
\* with or without a missing price
CallOriginal ==
    /\ pc = "idle"
    /\ calls = 0
    /\ \E name \in {"risk_parity", "equity_crisis_alpha"},
          initial_capital \in InitialCapitals :
           \E table \in {FullTable(1, MaxDate),
                          [FullTable(1, MaxDate)
                               EXCEPT ![MaxDate][AssetOrder[1]] = NoPrice]} :
               RunBacktest(name, 1, MaxDate, initial_capital, table)
    /\ UNCHANGED baseline

\* the second run: same strategy, range and capital, on a repricing of the
\* table of the first run
CallRepriced ==
    /\ pc = "idle"
    /\ calls = 1
    /\ results # NoResults
    /\ ~baseline.set
    /\ \E table \in Repricings(price_data) :
           /\ baseline' = [set |-> TRUE, truncated_after |-> 0,
                           results |-> results, traces |-> backtest_traces,
                           tables |-> tables]
           /\ RunBacktest(run.strategy_name, run.start_date, run.end_date,
                          run.initial_capital, table)

\* a day of the first run
OriginalDay == ~baseline.set /\ SimulateDay

\* a day of the second run: calculate_weights returns what it returned for
\* the same days of the first run
RepricedDay ==
    /\ baseline.set
    /\ SimulateDayWith(
           {calc[<<run.strategy_name,
                   OriginalOf(LocUpTo(price_data, dates[i + 1]))>>]})

NextReprice ==
    \/ CallOriginal \/ OriginalDay \/ FinishRun \/ Return \/ CallRepriced
    \/ RepricedDay

SpecReprice == Init /\ [][NextReprice]_vars

(***************************************************************************)
(* A run, then the same run by a backtester whose trace store is faulty.   *)
(***************************************************************************)
\* price tables of the compared runs: every asset priced on every day, or the
\* first asset without a price on the last day
TraceRunTables ==
    {FullTable(1, MaxDate),
     [FullTable(1, MaxDate) EXCEPT ![MaxDate][AssetOrder[1]] = NoPrice]}

\* the first run: working trace store
CallWorking ==
    /\ pc = "idle"
    /\ calls = 0
    /\ \E name \in {"risk_parity", "equity_crisis_alpha"},
          table \in TraceRunTables :
           RunBacktest(name, 1, MaxDate, RInt(100), table)
    /\ UNCHANGED baseline

\* UnifiedBacktester(results_db_path) on a new results database, whose
\* INSERTs into backtest_traces can raise; the first run is kept for comparison
NewBacktester ==
    /\ pc = "idle"
    /\ calls >= 1
    /\ ~baseline.set
    /\ baseline' = [set |-> TRUE, truncated_after |-> 0, results |-> results,
                    traces |-> backtest_traces, tables |-> tables]
    /\ backtest_traces' = <<>>
    /\ backtest_results' = <<>>
    /\ tbl_portfolio_values' = <<>>
    /\ tbl_trades' = <<>>
    /\ trace_store' = FaultyTraceStore
    /\ UNCHANGED <<calc, pc, run, simvars, results, now, calls, stored_log,
                   strategies, error, fetches, batch, metrics_call, rebalance_call,
                   market_data, runs>>

\* the run of the first call again, on the same price table
CallAgain ==
    /\ pc = "idle"
    /\ baseline.set
    /\ calls = 1
    /\ RunBacktest(run.strategy_name, run.start_date, run.end_date,
                   run.initial_capital, price_data)
    /\ UNCHANGED baseline

NextTraceFailure ==
    CallWorking \/ StoreDay \/ FinishRun \/ Return \/ NewBacktester \/ CallAgain

SpecTraceFailure == Init /\ [][NextTraceFailure]_vars

(***************************************************************************)
(* The metrics calculator on its own.                                      *)
(***************************************************************************)
\* portfolio values of the series
MetricValueLevels == {Zero, RInt(50), RInt(100), RInt(150)}

\* the column portfolio_df["portfolio_value"] of a trajectory
ValueSeries == UNION {[1..n -> MetricValueLevels] : n \in 1..MaxValues}

InitMetrics ==
    \E values \in ValueSeries :
        InitWith(RegistryOf(LoadOrder, {}), WorkingTraceStore,
                 [NoMetricsCall EXCEPT !.values = values])

\* the arguments of the call at the end of _simulate_backtest
CallReturns == PctChange(metrics_call.values)
CallInitialValue == metrics_call.values[1]
CallFinalValue == metrics_call.values[Len(metrics_call.values)]

\* metrics = self._calculate_performance_metrics(returns_series, first value,
\* last value)
CalculateMetrics ==
    /\ metrics_call.values # <<>>
    /\ ~metrics_call.returned
    /\ metrics_call.raised = ""
    /\ metrics_call' =
           IF MetricsRaise(CallReturns, CallInitialValue, CallFinalValue)
           THEN [metrics_call EXCEPT !.raised = ZeroDivision]
           ELSE [metrics_call EXCEPT
                    !.returned = TRUE,
                    !.metrics = calculate_performance_metrics(
                                    CallReturns, CallInitialValue, CallFinalValue)]
    /\ UNCHANGED <<calc, pc, run, simvars, results, backtest_traces, tables, now,
                   calls, stored_log, baseline, strategies, error, fetches,
                   trace_store, batch, rebalance_call, market_data, runs>>

NextMetrics == CalculateMetrics

SpecMetrics == InitMetrics /\ [][NextMetrics]_vars

(***************************************************************************)
(* should_rebalance on its own.                                            *)
(***************************************************************************)
\* weights of the dicts should_rebalance is called with: nothing, the drift
\* band itself, and values far from each other
DecisionLevels == {Zero, DriftThreshold, Half, One}

\* current_weights: a dict over any of the assets
DecisionCurrent == UNION {[D -> DecisionLevels] : D \in SUBSET Assets}

\* target_weights: a dict dict(zip(self.assets, weights))
DecisionTargets ==
    UNION {[{AssetOrder[j] : j \in 1..k} -> DecisionLevels] :
              k \in 0..Len(AssetOrder)}

\* strategy.should_rebalance(current_weights, target_weights) of a registered
\* strategy
CallShouldRebalance ==
    \E name \in StrategyNames, current \in DecisionCurrent,
       target \in DecisionTargets :
        /\ ~rebalance_call.returned
        /\ rebalance_call' =
               [name |-> name, current_weights |-> current,
                target_weights |-> target, returned |-> TRUE,
                result |-> should_rebalance(name, current, target)]
        /\ UNCHANGED <<calc, pc, run, simvars, results, backtest_traces, tables,
                       now, calls, stored_log, baseline, strategies, error,
                       fetches, trace_store, batch, metrics_call, market_data,
                       runs>>

NextRebalance == CallShouldRebalance

SpecRebalance == Init /\ [][NextRebalance]_vars

(***************************************************************************)
(* Runs of a single-asset strategy in a flat market.                       *)
(***************************************************************************)
\* the one asset of the strategy
FlatAsset == AssetOrder[1]

\* the strategy's calculate_weights returns weight 1.0 for its asset on every day
FlatTarget == [a \in {FlatAsset} |-> One]

\* the constant price of a run
FlatPrices == {50, 100}

\* a price table with the same price for the asset on each day 1..last
FlatTable(price, last) == [d \in 1..last |-> [a \in {FlatAsset} |-> price]]

\* the strategies whose should_rebalance compares weights with the drift band
DriftStrategies == {"risk_parity"}

\* run_backtest of the strategy over a flat market of 1..MaxFlatDays days
CallFlat ==
    /\ pc = "idle"
    /\ calls < MaxCalls
    /\ \E name \in DriftStrategies, end_date \in 1..MaxFlatDays,
          initial_capital \in InitialCapitals, price \in FlatPrices :
           RunBacktest(name, 1, end_date, initial_capital,
                       FlatTable(price, end_date))
    /\ UNCHANGED baseline

FlatDay == SimulateDayWith({FlatTarget})

NextFlat == CallFlat \/ FlatDay \/ FinishRun \/ Return

SpecFlat == Init /\ [][NextFlat]_vars

(***************************************************************************)
(* run_backtest calls of different strategies that run at the same time on *)
(* one backtester: each call has its own locals, all calls share the       *)
(* results database. A step is the start of a call, one loop iteration,    *)
(* the code after the loop, or one statement of _store_backtest_results.   *)
(***************************************************************************)
\* the strategies that are run at the same time
ConcurrentNames == {"risk_parity", "equity_crisis_alpha"}

\* the capital of each call
ConcurrentCapital == CHOOSE c \in InitialCapitals : \A d \in InitialCapitals : RGe(c, d)

\* the price table every call gets from the market data manager
ConcurrentTable == FullTable(1, MaxDate)

\* what the concurrent calls leave alone
soloVars == <<pc, run, simvars, results, now, calls, stored_log, baseline,
              strategies, error, fetches, trace_store, batch, metrics_call,
              rebalance_call, market_data>>

\* the events run_backtest and _simulate_backtest log before the loop
StartTraces(r) ==
    <<TraceEvent(r, "INFO", "BACKTEST", 0), TraceEvent(r, "INFO", "PORTFOLIO", 0)>>

\* the locals of a call at the start of the loop
LocalsAtStart(name, initial_capital) ==
    LET r == [strategy_name |-> name, start_date |-> 1, end_date |-> MaxDate,
              initial_capital |-> initial_capital]
    IN  [pc |-> "simulating", run |-> r,
         dates |-> TradingDays(ConcurrentTable, 1, MaxDate), i |-> 0,
         current_weights |-> EmptyDict, cash |-> initial_capital,
         portfolio_value |-> initial_capital, portfolio_values |-> <<>>,
         trades |-> <<>>, target_weights |-> EmptyDict, results |-> NoResults,
         todo |-> <<>>, existing |-> "none", logged |-> StartTraces(r)]

\* what calculate_weights may return in the next loop iteration of a call: on
\* the first day a fully invested vector that holds the last asset, alone or
\* with others, and the same vector on the later days
ConcurrentOutputs(l) ==
    IF l.i = 0
    THEN {t \in StoreTargets : RGt(t[AssetOrder[Len(AssetOrder)]], Zero)}
    ELSE {l.target_weights}

\* the rebalance decision of the next loop iteration of a call
LocalDecision(l, target_weights) ==
    RebalanceDecision(l.i = 0, l.run.strategy_name, l.current_weights,
                      target_weights)

\* the locals of a call after its next loop iteration, in which
\* calculate_weights returns target_weights
LocalsAfterDay(l, target_weights) ==
    LET date == l.dates[l.i + 1]
        decision == LocalDecision(l, target_weights)
        ex == IF decision
              THEN execute_rebalance(l.portfolio_value, l.cash,
                       l.current_weights, target_weights,
                       DropNa(ConcurrentTable[date]), date)
              ELSE [portfolio_value |-> l.portfolio_value, cash |-> l.cash,
                    weights |-> l.current_weights, trades |-> <<>>]
        value == Revalue(ex.weights, ex.portfolio_value, ex.cash)
    IN  [l EXCEPT !.i = @ + 1, !.target_weights = target_weights,
                  !.current_weights = ex.weights,
                  !.cash = ex.cash, !.trades = @ \o ex.trades,
                  !.portfolio_value = value,
                  !.portfolio_values = Append(@,
                      [date |-> date, portfolio_value |-> value,
                       cash |-> ex.cash, weights |-> ex.weights]),
                  !.logged = @ \o DayTraces(l.run, date, l.i = 0, decision)]

\* the dict _simulate_backtest returns to a call
LocalResults(l) ==
    LET values == [k \in DOMAIN l.portfolio_values |->
                      l.portfolio_values[k].portfolio_value]
    IN  [strategy_name |-> l.run.strategy_name,
         start_date |-> l.run.start_date, end_date |-> l.run.end_date,
         initial_capital |-> l.run.initial_capital,
         final_value |-> l.portfolio_value,
         portfolio_values |-> l.portfolio_values, trades |-> l.trades,
         metrics |-> calculate_performance_metrics(
                         PctChange(values), values[1], values[Len(values)])]

\* the rows _store_backtest_results stores for a result at time created_at, in
\* the order of its statements
RowsToStore(name, res, created_at) ==
    <<[table_name |-> "backtest_results",
       row |-> SummaryRow(name, res, created_at)]>>
    \o [k \in DOMAIN res.portfolio_values |->
           [table_name |-> "portfolio_values",
            row |-> ValueRow(name, res.portfolio_values[k], created_at)]]
    \o [k \in DOMAIN res.trades |->
           [table_name |-> "trades",
            row |-> TradeRow(name, res.trades[k], created_at)]]

\* the metrics of a call raise
LocalMetricsRaise(l) ==
    MetricsRaise(PctChange([k \in DOMAIN l.portfolio_values |->
                               l.portfolio_values[k].portfolio_value]),
                 l.portfolio_values[1].portfolio_value, l.portfolio_value)

\* the locals of a call after the code that follows the loop
LocalsAfterLoop(l, created_at) ==
    IF LocalMetricsRaise(l) THEN [l EXCEPT !.pc = "failed"]
    ELSE [l EXCEPT !.pc = "storing", !.results = LocalResults(l),
                   !.todo = RowsToStore(l.run.strategy_name, LocalResults(l),
                                        created_at),
                   !.logged = @ \o FinalTraces(l.run)]

\* the locals of a call after a statement of _store_backtest_results; the call
\* returns after the last one
LocalsAfterStatement(l, found) ==
    [l EXCEPT !.existing = found,
              !.todo = IF found = "no" THEN @ ELSE Tail(@),
              !.pc = IF found # "no" /\ Tail(l.todo) = <<>> THEN "done" ELSE @]

\* the table a row goes to
TableOf(table_name) ==
    CASE table_name = "backtest_results" -> backtest_results
      [] table_name = "portfolio_values" -> tbl_portfolio_values
      [] table_name = "trades" -> tbl_trades

\* a run_backtest call of a strategy starts while others are in progress
StartRun(p) ==
    /\ p \notin DOMAIN runs
    /\ IsRegistered(strategies, p) /\ HasInstance(strategies, p)
    /\ \E l \in {LocalsAtStart(p, ConcurrentCapital)} :
           /\ runs' = Put(runs, p, l)
           /\ backtest_traces' = log_trace_events(backtest_traces, l.logged, {})
    /\ UNCHANGED <<calc, tables, soloVars>>

\* a loop iteration of a call
RunDay(p) ==
    /\ p \in DOMAIN runs
    /\ runs[p].pc = "simulating"
    /\ runs[p].i < Len(runs[p].dates)
    /\ LET l == runs[p]
           date == l.dates[l.i + 1]
           key == <<p, LocUpTo(ConcurrentTable, date)>>
       IN  \E target_weights \in ConcurrentOutputs(l) :
               /\ key \in DOMAIN calc => calc[key] = target_weights
               /\ calc' = Put(calc, key, target_weights)
               /\ runs' = [runs EXCEPT ![p] = LocalsAfterDay(l, target_weights)]
               /\ backtest_traces' =
                      log_trace_events(backtest_traces,
                          DayTraces(l.run, date, l.i = 0,
                                    LocalDecision(l, target_weights)), {})
    /\ UNCHANGED <<tables, soloVars>>

\* the code of a call after the loop, up to the first statement of
\* _store_backtest_results
RunAfterLoop(p) ==
    /\ p \in DOMAIN runs
    /\ runs[p].pc = "simulating"
    /\ runs[p].i = Len(runs[p].dates)
    /\ \E l \in {LocalsAfterLoop(runs[p], now)} :
           /\ runs' = [runs EXCEPT ![p] = l]
           /\ backtest_traces' =
                  IF l.pc = "failed" THEN backtest_traces
                  ELSE log_trace_events(backtest_traces, FinalTraces(l.run), {})
    /\ UNCHANGED <<calc, tables, soloVars>>

\* "existing = SELECT 1 FROM <table> WHERE <key>" of a call
StoreSelect(p) ==
    /\ p \in DOMAIN runs
    /\ runs[p].pc = "storing"
    /\ runs[p].existing = "none"
    /\ LET item == Head(runs[p].todo)
           found == Existing(item.table_name, TableOf(item.table_name),
                             KeyOf(item.table_name, item.row))
       IN  runs' = [runs EXCEPT ![p] =
                       LocalsAfterStatement(@, IF found THEN "none" ELSE "no")]
    /\ UNCHANGED <<calc, backtest_traces, tables, soloVars>>

\* "if not existing: INSERT INTO <table>" of a call
StoreInsert(p) ==
    /\ p \in DOMAIN runs
    /\ runs[p].pc = "storing"
    /\ runs[p].existing = "no"
    /\ LET item == Head(runs[p].todo)
       IN  /\ backtest_results' =
                  IF item.table_name = "backtest_results"
                  THEN Append(backtest_results, item.row) ELSE backtest_results
           /\ tbl_portfolio_values' =
                  IF item.table_name = "portfolio_values"
                  THEN Append(tbl_portfolio_values, item.row)
                  ELSE tbl_portfolio_values
           /\ tbl_trades' =
                  IF item.table_name = "trades"
                  THEN Append(tbl_trades, item.row) ELSE tbl_trades
    /\ runs' = [runs EXCEPT ![p] = LocalsAfterStatement(@, "none")]
    /\ UNCHANGED <<calc, backtest_traces, soloVars>>

NextConcurrent ==
    \E p \in ConcurrentNames :
        \/ StartRun(p)
        \/ RunDay(p)
        \/ RunAfterLoop(p)
        \/ StoreSelect(p)
        \/ StoreInsert(p)

SpecConcurrent == Init /\ [][NextConcurrent]_vars

(***************************************************************************)
(* MarketDataManager.get_price_data and its DataCache, for requests of one *)
(* valid symbol. A table maps the dates it has a row for to the price; a   *)
(* cache row also has the time it was stored at.                           *)
(***************************************************************************)
\* cache_duration_days: timedelta(days=1) by default
cache_duration == 1

\* the dates of the cached rows "WHERE p.date BETWEEN start_date AND end_date"
CachedDates(cache, start_date, end_date) ==
    {d \in DOMAIN cache : start_date <= d /\ d <= end_date}

\* SELECT MAX(p.created_at) over those rows
MaxCreatedAt(cache, ds) ==
    CHOOSE c \in {cache[d].created_at : d \in ds} :
        \A d \in ds : cache[d].created_at <= c

\* DataCache._is_cache_valid at time clock
IsCacheValid(cache, start_date, end_date, clock) ==
    LET ds == CachedDates(cache, start_date, end_date)
    IN  /\ ds # {}
        /\ clock - MaxCreatedAt(cache, ds) < cache_duration

\* DataCache.get_price_data at time clock: nothing when the rows are expired
CacheGetPriceData(cache, start_date, end_date, clock) ==
    IF ~IsCacheValid(cache, start_date, end_date, clock) THEN EmptyTable
    ELSE [d \in CachedDates(cache, start_date, end_date) |-> cache[d].price]

\* DataCache.store_price_data at time clock: the rows between the first and the
\* last date of the data are deleted and the rows of the data are inserted
StorePriceData(cache, data, clock) ==
    IF DOMAIN data = {} THEN cache
    ELSE LET min_date == CHOOSE d \in DOMAIN data : \A e \in DOMAIN data : d <= e
             max_date == CHOOSE d \in DOMAIN data : \A e \in DOMAIN data : e <= d
             kept == {d \in DOMAIN cache : d < min_date \/ max_date < d}
         IN  [d \in kept \cup DOMAIN data |->
                 IF d \in DOMAIN data
                 THEN [price |-> data[d], created_at |-> clock]
                 ELSE cache[d]]

\* what fetcher.fetch_price_data can return for a request: nothing, or rows for
\* some days of the range
FetchResults(start_date, end_date) ==
    UNION {[days -> PriceLevels] : days \in SUBSET (start_date..end_date)}

\* MarketDataManager.get_price_data(symbols, start_date, end_date,
\* force_refresh) when the fetcher would return fresh_data
ManagerGetPriceData(start_date, end_date, force_refresh, fresh_data) ==
    LET md == market_data
        cached_data ==
            CacheGetPriceData(md.cache, start_date, end_date, md.clock)
        stale_data ==
            CacheGetPriceData(md.cache, start_date, end_date, md.clock)
        call == [md EXCEPT !.called = TRUE, !.start_date = start_date,
                           !.end_date = end_date,
                           !.force_refresh = force_refresh]
    IN  IF ~force_refresh /\ cached_data # EmptyTable
        THEN market_data' = [call EXCEPT !.fetched = FALSE,
                                         !.fresh_data = EmptyTable,
                                         !.returned = cached_data]
        ELSE IF fresh_data # EmptyTable
        THEN market_data' =
                 [call EXCEPT !.fetched = TRUE, !.fresh_data = fresh_data,
                              !.cache = StorePriceData(md.cache, fresh_data,
                                                       md.clock),
                              !.returned = fresh_data]
        ELSE market_data' = [call EXCEPT !.fetched = TRUE,
                                         !.fresh_data = EmptyTable,
                                         !.returned = stale_data]

\* a get_price_data call
CallGetPriceData ==
    /\ \E start_date \in Dates, end_date \in Dates, force_refresh \in BOOLEAN :
           /\ start_date <= end_date
           /\ \E fresh_data \in FetchResults(start_date, end_date) :
                  ManagerGetPriceData(start_date, end_date, force_refresh,
                                      fresh_data)
    /\ UNCHANGED <<calc, pc, run, simvars, results, backtest_traces, tables,
                   now, calls, stored_log, baseline, strategies, error, fetches,
                   trace_store, batch, metrics_call, rebalance_call, runs>>

\* a day passes between two calls
Tick ==
    /\ market_data.clock < MaxClock
    /\ market_data' = [market_data EXCEPT !.clock = @ + 1]
    /\ UNCHANGED <<calc, pc, run, simvars, results, backtest_traces, tables,
                   now, calls, stored_log, baseline, strategies, error, fetches,
                   trace_store, batch, metrics_call, rebalance_call, runs>>

NextMarketData == CallGetPriceData \/ Tick

SpecMarketData == Init /\ [][NextMarketData]_vars

(***************************************************************************)
(* Runs of a strategy whose target vector is the same on every day.        *)
(***************************************************************************)
\* run_backtest of a strategy that looks at the drift band, over 1..end_date
\* days on which every asset has a price
CallConstant ==
    /\ pc = "idle"
    /\ calls = 0
    /\ \E name \in {"risk_parity", "equity_crisis_alpha"},
          end_date \in 1..MaxFlatDays, initial_capital \in InitialCapitals :
           RunBacktest(name, 1, end_date, initial_capital, FullTable(1, end_date))
    /\ UNCHANGED baseline

\* calculate_weights returns a fully invested vector on the first day and the
\* same vector on every later day
ConstantDay ==
    SimulateDayWith(IF i = 0 THEN StoreTargets ELSE {step.target_weights})

NextConstant == CallConstant \/ ConstantDay \/ FinishRun

SpecConstant == Init /\ [][NextConstant]_vars

(***************************************************************************)
(* Properties of the rebalance executor and of the simulation loop.        *)
(***************************************************************************)
\* the trades of a list that have the given action
TradesOf(trade_list, action) ==
    Pick(trade_list, {k \in DOMAIN trade_list : trade_list[k].action = action}, 1)

\* sum of the values of the trades of a list with the given action
TradeValueSum(trade_list, action) ==
    LET sel == TradesOf(trade_list, action)
    IN  RSumSeq([k \in DOMAIN sel |-> sel[k].value])

\* the asset has a trade in the list
Traded(trade_list, asset) ==
    \E k \in DOMAIN trade_list : trade_list[k].symbol = asset

\* |target - current| x portfolio_value of the last executor call, for an asset
\* of the target vector
StepDelta(asset) ==
    RMul(RAbs(RSub(step.target_weights[asset],
                   Get(step.weights_before, asset, Zero))),
         step.value_before)

\* C1: cash conservation. After every executor call the cash equals the cash
\* passed in, minus the values of the BUY trades it emitted, plus the values of
\* the SELL trades it emitted.
C1_CashConservation ==
    step.executed =>
        cash = RAdd(RSub(step.cash_before, TradeValueSum(step.day_trades, "BUY")),
                    TradeValueSum(step.day_trades, "SELL"))

\* an executor call that sold one asset, traded nothing for another asset of
\* the target vector, and changed the cash
C1_Witness ==
    /\ step.executed
    /\ TradesOf(step.day_trades, "SELL") # <<>>
    /\ \E a \in DOMAIN step.target_weights : ~Traded(step.day_trades, a)
    /\ cash # step.cash_before

\* C2: weight normalization. After every executor call the returned weights
\* sum to 1.
C2_WeightsSumToOne ==
    step.executed => RSum(current_weights) = One

\* C4: the executor runs on a simulated day if and only if the day is the
\* first one or should_rebalance(current_weights, target_weights) is true; the
\* first day does not consult should_rebalance.
C4_RebalanceIffFirstOrTriggered ==
    step.date # 0 =>
        /\ step.executed <=>
               (step.first \/ should_rebalance(run.strategy_name,
                                  step.weights_before, step.target_weights))
        /\ step.first => ~step.consulted
        /\ ~step.first => step.consulted

\* a first day on which the strategy would not have asked for a rebalance
C4_Witness ==
    /\ step.first
    /\ step.executed
    /\ ~should_rebalance(run.strategy_name, step.weights_before,
                         step.target_weights)

\* C5: every recorded portfolio_value with a non-empty weight vector is the sum
\* over the assets of weight x the value carried into the day, plus the cash,
\* with the weights and cash of that day's entry; with an empty weight vector
\* it is the carried value.
C5_RecordedValue ==
    \A k \in DOMAIN portfolio_values :
        LET e == portfolio_values[k]
            carried == IF k = 1 THEN run.initial_capital
                       ELSE portfolio_values[k - 1].portfolio_value
        IN  /\ e.portfolio_value =
                   IF DOMAIN e.weights # {}
                   THEN RAdd(RSum([a \in DOMAIN e.weights |->
                                      RMul(e.weights[a], carried)]), e.cash)
                   ELSE carried
            /\ k = Len(portfolio_values) =>
                   e.weights = current_weights /\ e.cash = cash

\* a later day that rebalanced into a non-empty weight vector with cash left
C5_Witness ==
    /\ Len(portfolio_values) >= 2
    /\ step.executed
    /\ DOMAIN current_weights # {}
    /\ cash # Zero
    /\ step.day_trades # <<>>

\* C6: the trajectory has exactly one entry per date of [start_date, end_date]
\* that is in the price table, in strictly increasing date order.
C6_OneEntryPerTradingDay ==
    /\ \A k \in DOMAIN portfolio_values :
           /\ portfolio_values[k].date \in DOMAIN price_data
           /\ run.start_date <= portfolio_values[k].date
           /\ portfolio_values[k].date <= run.end_date
           /\ k > 1 => portfolio_values[k - 1].date < portfolio_values[k].date
    /\ pc = "done" =>
           {portfolio_values[k].date : k \in DOMAIN portfolio_values}
               = {d \in run.start_date..run.end_date : d \in DOMAIN price_data}

\* a finished run with entries whose range has a day without price row
C6_Witness ==
    /\ pc = "done"
    /\ \E d \in run.start_date..run.end_date : d \notin DOMAIN price_data
    /\ portfolio_values # <<>>

\* C7: on a day on which the strategy does not ask for a rebalance (and that
\* is not the first), the recorded weights and cash are those of the previous
\* day's entry and the trade log gets no trade for the day.
C7_NoRebalanceKeepsPortfolio ==
    (/\ step.date # 0
     /\ ~step.first
     /\ ~should_rebalance(run.strategy_name, step.weights_before,
                          step.target_weights))
    => LET n == Len(portfolio_values)
       IN  /\ n >= 2
           /\ portfolio_values[n].weights = portfolio_values[n - 1].weights
           /\ portfolio_values[n].cash = portfolio_values[n - 1].cash
           /\ \A k \in DOMAIN trades : trades[k].trade_date # step.date

\* a day without rebalance of a portfolio that holds assets and has traded
C7_Witness ==
    /\ step.date # 0
    /\ ~step.executed
    /\ DOMAIN current_weights # {}
    /\ trades # <<>>
    /\ step.target_weights # step.weights_before

\* C8: deadband. Every trade the executor emits is for an asset whose
\* |target_weight - current_weight| x portfolio_value is strictly greater than
\* 1.0, and has that value; every trade of the trade log has value > 1.0.
C8_Deadband ==
    /\ \A k \in DOMAIN trades : RGt(trades[k].value, RInt(1))
    /\ step.executed =>
           \A k \in DOMAIN step.day_trades :
               LET t == step.day_trades[k]
               IN  /\ t.symbol \in DOMAIN step.target_weights
                   /\ t.value = StepDelta(t.symbol)
                   /\ RGt(StepDelta(t.symbol), RInt(1))

\* an executor call with a priced asset whose delta is exactly 1.0 and another
\* asset that traded
C8_Witness ==
    /\ step.executed
    /\ step.day_trades # <<>>
    /\ \E a \in DOMAIN step.target_weights :
           /\ StepDelta(a) = RInt(1)
           /\ a \in DOMAIN step.current_prices
           /\ ~Traded(step.day_trades, a)

\* C9: an asset of the target vector with an above-deadband delta and no price
\* gets no trade, and its weight after the rebalance is the weight it had
\* before the rebalance.
C9_SkippedAssetKeepsWeight ==
    step.executed =>
        \A a \in DOMAIN step.target_weights :
            (RGt(StepDelta(a), RInt(1)) /\ a \notin DOMAIN step.current_prices)
            => /\ ~Traded(step.day_trades, a)
               /\ Get(current_weights, a, Zero) = Get(step.weights_before, a, Zero)

(***************************************************************************)
(* Properties of several runs.                                             *)
(***************************************************************************)
\* the trace events about a simulated day up to day d
DayEventsUpTo(events, d) ==
    Pick(events, {k \in DOMAIN events : 0 < events[k].date /\ events[k].date <= d}, 1)

\* the trades up to day d
TradesUpTo(trade_list, d) ==
    Pick(trade_list, {k \in DOMAIN trade_list : trade_list[k].trade_date <= d}, 1)

\* the trace events appended after the baseline was taken
RerunEvents ==
    SubSeq(backtest_traces, Len(baseline.traces) + 1, Len(backtest_traces))

\* C3: no look-ahead. Every strategy call of a simulated day gets only price
\* rows up to that day, and the run on the table truncated after day d has,
\* for the days up to d, the trajectory entries, the trades and the rebalance
\* events of the run on the full table.
C3_NoLookAhead ==
    /\ \A d \in DOMAIN step.strategy_input : d <= step.date
    /\ (pc = "done" /\ baseline.set) =>
           LET d == baseline.truncated_after
               full == baseline.results
               n == Len(results.portfolio_values)
           IN  /\ n <= Len(full.portfolio_values)
               /\ results.portfolio_values = SubSeq(full.portfolio_values, 1, n)
               /\ \A k \in DOMAIN full.portfolio_values :
                      full.portfolio_values[k].date <= d => k <= n
               /\ results.trades = TradesUpTo(full.trades, d)
               /\ DayEventsUpTo(RerunEvents, d) = DayEventsUpTo(baseline.traces, d)

\* a rerun on a table that lost rows, that has fewer days than the full run and
\* whose days traded
C3_Witness ==
    /\ pc = "done"
    /\ baseline.set
    /\ Len(results.portfolio_values) < Len(baseline.results.portfolio_values)
    /\ results.trades # <<>>
    /\ Len(baseline.results.trades) > Len(results.trades)

\* no two rows of a table have the same natural key
UniqueKeys(table_name, table) ==
    \A j, k \in DOMAIN table :
        j # k => KeyOf(table_name, table[j]) # KeyOf(table_name, table[k])

\* this step stores a result that was stored before
StoresAgain ==
    /\ Len(stored_log') = Len(stored_log) + 1
    /\ \E k \in DOMAIN stored_log : stored_log[k] = stored_log'[Len(stored_log')]

\* C10: idempotent persistence. Storing a result that was stored before leaves
\* backtest_results, portfolio_values and trades as they are, and each table
\* has at most one row per natural key.
C10_IdempotentStore ==
    /\ [](/\ UniqueKeys("backtest_results", backtest_results)
          /\ UniqueKeys("portfolio_values", tbl_portfolio_values)
          /\ UniqueKeys("trades", tbl_trades))
    /\ [][StoresAgain => UNCHANGED tables]_vars

\* the same result, with trades, stored twice, and still one summary row
C10_Witness ==
    /\ Len(stored_log) >= 2
    /\ stored_log[1] = stored_log[2]
    /\ stored_log[1].trades # <<>>
    /\ Len(stored_log[1].portfolio_values) >= 2
    /\ Len(backtest_results) = 1

(***************************************************************************)
(* Properties of the error paths.                                          *)
(***************************************************************************)
\* the results of the run of a strategy that were stored, if any
StoredOf(name) ==
    {stored_log[k] : k \in {j \in DOMAIN stored_log :
                                 stored_log[j].strategy_name = name}}

\* the names of the registry
RegisteredNames == {strategies[k].name : k \in DOMAIN strategies}

\* C11: run_all_strategies never stops because the run of one strategy
\* raised: while it runs every registered strategy is either still to run or
\* has its entry, and what it returns has exactly one entry per registered
\* strategy: the full result of the run if the run returned, and otherwise a
\* record with the only key "error" that holds the error string.
C11_BatchIsolatesFailures ==
    /\ (batch.state = "running" /\ pc = "idle") =>
           /\ Len(batch.queue) + Cardinality(DOMAIN batch.all_results)
                  = Len(strategies)
           /\ \A k \in DOMAIN batch.queue :
                  batch.queue[k] \notin DOMAIN batch.all_results
    /\ batch.state = "returned" =>
           /\ DOMAIN batch.all_results = RegisteredNames
           /\ \A name \in RegisteredNames :
                  IF StoredOf(name) # {}
                  THEN batch.all_results[name] \in StoredOf(name)
                  ELSE /\ DOMAIN batch.all_results[name] = {"error"}
                       /\ batch.all_results[name].error
                              \in {NoInstance, DataUnavailable, NoTradingDay}

\* a batch that returned, in which the run of the first strategy raised and
\* the run of a later strategy made trades and returned its results
C11_Witness ==
    /\ batch.state = "returned"
    /\ Len(strategies) >= 2
    /\ "error" \in DOMAIN batch.all_results[strategies[1].name]
    /\ \E k \in 2..Len(strategies) :
           /\ "error" \notin DOMAIN batch.all_results[strategies[k].name]
           /\ batch.all_results[strategies[k].name].trades # <<>>

\* the rows of a table without their created_at column
WithoutCreatedAt(table) ==
    [k \in DOMAIN table |->
        [f \in DOMAIN table[k] \ {"created_at"} |-> table[k][f]]]

\* C12: a failing trace write is absorbed. No run ends with the exception of
\* a trace write, and the run on a faulty trace store ends as the same run on
\* a working one did: same returned trajectory, trades and metrics, same rows
\* in backtest_results, portfolio_values and trades.
C12_TraceFailureAbsorbed ==
    /\ error # TraceWriteFailure
    /\ (baseline.set /\ pc \in {"done", "failed"}) =>
           /\ (pc = "done") <=> (baseline.results # NoResults)
           /\ pc = "done" => results = baseline.results
           /\ \A t \in 1..3 :
                  WithoutCreatedAt(tables[t]) = WithoutCreatedAt(baseline.tables[t])

\* a finished run with trades on a faulty trace store that lost trace events
\* and wrote others, after the same run on a working trace store
C12_Witness ==
    /\ baseline.set
    /\ pc = "done"
    /\ trace_store.faulty
    /\ trace_store.failures > 0
    /\ results.trades # <<>>
    /\ Len(results.portfolio_values) >= 2
    /\ backtest_traces # <<>>
    /\ Len(backtest_traces) < Len(baseline.traces)

\* this step is a run_backtest call
CallStep == pc = "idle" /\ calls' = calls + 1

\* C13: run_backtest with a name that is not registered fails at once with
\* the "not found" error and does nothing else: no call of the price provider,
\* no trace event, no row in a results table, no simulation state.
C13_UnknownStrategy ==
    /\ [][(CallStep /\ run'.strategy_name \notin RegisteredNames) =>
             /\ pc' = "failed"
             /\ error' = UnknownStrategy
             /\ UNCHANGED <<fetches, backtest_traces, tables, simvars, results>>]_vars
    /\ [](run.strategy_name \in UnknownNames => pc \in {"failed", "idle"})

\* a failed call with an unknown name on a backtester that has run and stored
\* a backtest before
C13_Witness ==
    /\ pc = "failed"
    /\ run.strategy_name \in UnknownNames
    /\ error = UnknownStrategy
    /\ fetches > 0
    /\ backtest_traces # <<>>
    /\ tbl_trades # <<>>

\* C14: when the provider returns an empty table, run_backtest fails with the
\* "no price data" error after that one provider call, and the failed run does
\* nothing more: no simulation step, no trace event, no row in a results
\* table.
C14_DataUnavailable ==
    /\ [][(CallStep /\ fetches' # fetches /\ DOMAIN price_data' = {}) =>
             /\ pc' = "failed"
             /\ error' = DataUnavailable
             /\ fetches' = fetches + 1
             /\ UNCHANGED <<backtest_traces, tables, results, portfolio_values,
                            trades, i, step>>]_vars
    /\ [][pc = "failed" =>
             UNCHANGED <<fetches, backtest_traces, tables, results, simvars>>]_vars

\* a call of a registered strategy that failed on an empty price table, on a
\* backtester that has run and stored a backtest before
C14_Witness ==
    /\ pc = "failed"
    /\ error = DataUnavailable
    /\ run.strategy_name \in RegisteredNames
    /\ DOMAIN price_data = {}
    /\ fetches >= 2
    /\ backtest_traces # <<>>
    /\ tbl_trades # <<>>

(***************************************************************************)
(* Properties of the metrics calculator.                                   *)
(***************************************************************************)
\* C15: for a non-empty return series the metrics calculator does not raise
\* on a zero or undefined denominator: a zero volatility gives sharpe_ratio 0,
\* a zero max_drawdown gives calmar_ratio 0, and a zero initial_value gives
\* total_return 0 and annualized_return 0.
C15_UndefinedMetricsDegrade ==
    /\ metrics_call.raised = ""
    /\ (metrics_call.returned /\ CallReturns # <<>>) =>
           /\ Volatility(CallReturns) = Zero =>
                  metrics_call.metrics.sharpe_ratio = Zero
           /\ MaxDrawdown(CallReturns) = Zero =>
                  metrics_call.metrics.calmar_ratio = Zero
           /\ CallInitialValue = Zero =>
                  /\ metrics_call.metrics.total_return = Zero
                  /\ metrics_call.metrics.annualized_return = Zero

\* the float fields of the metrics record
FloatFields ==
    {"total_return", "annualized_return", "volatility", "sharpe_ratio",
     "max_drawdown", "calmar_ratio", "win_rate", "profit_factor",
     "avg_trade_return"}

\* a finite float: a rational or a finite float of known sign
IsFinite(x) == IsExact(x) \/ x = Inexact(1) \/ x = Inexact(-1)

\* what a computed value is reported as
Reported(raw) ==
    IF IsNaN(raw) THEN Zero ELSE IF IsInf(raw) THEN RInt(999) ELSE raw

NonDecreasing(xs) ==
    \A k \in 1..(Len(xs) - 1) : ~FGt(xs[k], xs[k + 1])

DriftStep ==
    /\ pc = "simulating"
    /\ i > 0
    /\ i' = i + 1
    /\ should_rebalance(run.strategy_name, current_weights, step'.target_weights)

\* + value of a BUY, - value of a SELL
SignedValue(trade) ==
    IF trade.action = "BUY" THEN trade.value ELSE RSub(Zero, trade.value)

\* C20: on a day that is not the first and on which should_rebalance returns
\* true, the loop emits exactly one REBALANCE trace event for the day, followed
\* by one WEIGHT_CALC and one TRADE event, and the signed value of every trade
\* of the day is (target_weight - current_weight) x portfolio_value.
C20_DriftRebalanceStep ==
    [][DriftStep =>
          /\ backtest_traces' = backtest_traces \o
                 <<TraceEvent(run, "INFO", "REBALANCE", dates[i + 1]),
                   TraceEvent(run, "DEBUG", "WEIGHT_CALC", dates[i + 1]),
                   TraceEvent(run, "INFO", "TRADE", dates[i + 1])>>
          /\ \E day_trades \in {step'.day_trades} :
                 /\ trades' = trades \o day_trades
                 /\ \A k \in DOMAIN day_trades :
                        /\ day_trades[k].trade_date = dates[i + 1]
                        /\ SignedValue(day_trades[k]) =
                               RMul(RSub(step'.target_weights[day_trades[k].symbol],
                                         Get(current_weights,
                                             day_trades[k].symbol, Zero)),
                                    portfolio_value)]_vars

\* a drift-triggered rebalance that bought one asset and sold another, with
\* its three trace events last in the trace table
C20_Witness ==
    /\ step.consulted
    /\ step.decision
    /\ TradesOf(step.day_trades, "BUY") # <<>>
    /\ TradesOf(step.day_trades, "SELL") # <<>>
    /\ Len(backtest_traces) >= 3
    /\ backtest_traces[Len(backtest_traces) - 2]
           = TraceEvent(run, "INFO", "REBALANCE", step.date)
    /\ backtest_traces[Len(backtest_traces)]
           = TraceEvent(run, "INFO", "TRADE", step.date)

\* the positions of the trace events of a category in backtest_traces
EventsOf(category) ==
    {k \in DOMAIN backtest_traces : backtest_traces[k].category = category}

DriftOf(asset) ==
    RAbs(RSub(Get(rebalance_call.current_weights, asset, Zero),
              Get(rebalance_call.target_weights, asset, Zero)))

\* C22: for every registered strategy, should_rebalance returns true when some
\* asset's drift is strictly greater than drift_bands / 100, and false when
\* every asset is present in current_weights and no drift exceeds the band.
C22_DriftBandDecides ==
    rebalance_call.returned =>
        /\ (\E a \in Assets : RGt(DriftOf(a), Rat(drift_bands, 100)))
               => rebalance_call.result
        /\ (\A a \in Assets :
                /\ a \in DOMAIN rebalance_call.current_weights
                /\ RGe(Rat(drift_bands, 100), DriftOf(a)))
               => ~rebalance_call.result

\* the strategies whose should_rebalance looks at the drift band
BandStrategies == {"risk_parity", "equity_crisis_alpha"}

\* C29: for every drift-band strategy, should_rebalance returns true whenever
\* an asset of the strategy is absent from current_weights, whatever its
\* target weight.
C29_MissingAssetRebalances ==
    (/\ rebalance_call.returned
     /\ rebalance_call.name \in BandStrategies
     /\ \E a \in Assets : a \notin DOMAIN rebalance_call.current_weights)
    => rebalance_call.result

(***************************************************************************)
(* Properties of the portfolio a run holds.                                *)
(***************************************************************************)
\* every asset has a price on every day of the run's price table
AllPriced ==
    \A d \in DOMAIN price_data : \A a \in Assets : price_data[d][a] # NoPrice

\* the strategy returned the same vector, which sums to 1, on every day so far
ConstantTarget ==
    \E t \in TargetVectors :
        /\ RSum(t) = One
        /\ \A k \in DOMAIN calc : calc[k] = t

\* C24: value conservation under constant targets. If the strategy returns
\* the same non-negative target vector summing to 1 on every day and every
\* asset has a price on every day, the recorded portfolio_value is the
\* initial capital on every simulated day and the recorded cash is 0 from the
\* first day on, whatever the strategy's should_rebalance.
C24_ConstantTargetsConserveValue ==
    (ConstantTarget /\ AllPriced) =>
        \A k \in DOMAIN portfolio_values :
            /\ portfolio_values[k].portfolio_value = run.initial_capital
            /\ portfolio_values[k].cash = Zero

\* C25: no holding disappears without a trade. When a rebalance leaves an
\* asset that had a positive weight before it absent from, or at zero in, the
\* returned weights, the rebalance emitted a SELL trade for that asset.
C25_NoHoldingLostWithoutSell ==
    step.executed =>
        \A a \in Assets :
            (/\ RGt(Get(step.weights_before, a, Zero), Zero)
             /\ Get(current_weights, a, Zero) = Zero)
            => \E k \in DOMAIN step.day_trades :
                   /\ step.day_trades[k].symbol = a
                   /\ step.day_trades[k].action = "SELL"

\* C26: trades are made against available cash. With a positive initial
\* capital and non-negative target vectors summing to at most 1, the cash of
\* every trajectory entry is >= 0.
C26_CashNeverNegative ==
    \A k \in DOMAIN portfolio_values :
        RGe(portfolio_values[k].cash, Zero)

(***************************************************************************)
(* Properties of the results store under reruns.                           *)
(***************************************************************************)
\* a stored row without its DEFAULT CURRENT_TIMESTAMP column
Payload(row) == [f \in DOMAIN row \ {"created_at"} |-> row[f]]

\* the payloads of the rows of a table that belong to a strategy
PayloadsOf(table, name) ==
    {Payload(table[k]) : k \in {j \in DOMAIN table : table[j].strategy_name = name}}

\* the positions of the results stored for a strategy
StoredAt(name) == {k \in DOMAIN stored_log : stored_log[k].strategy_name = name}

\* the first result stored for a strategy
FirstStored(name) ==
    stored_log[CHOOSE k \in StoredAt(name) : \A j \in StoredAt(name) : k <= j]

\* every result stored for the strategy covers the same date range
SameRange(name) ==
    \A j, k \in StoredAt(name) :
        /\ stored_log[j].start_date = stored_log[k].start_date
        /\ stored_log[j].end_date = stored_log[k].end_date

\* the summary row of a table is the one of the first stored result
SummaryIsFirst(name) ==
    PayloadsOf(backtest_results, name) =
        {Payload(SummaryRow(name, FirstStored(name), 0))}

\* the daily values of a table are those of the first stored result
ValuesAreFirst(name) ==
    PayloadsOf(tbl_portfolio_values, name) =
        {Payload(ValueRow(name, FirstStored(name).portfolio_values[k], 0)) :
            k \in DOMAIN FirstStored(name).portfolio_values}

\* the trades of a table are those of the first stored result
TradesAreFirst(name) ==
    PayloadsOf(tbl_trades, name) =
        {Payload(TradeRow(name, FirstStored(name).trades[k], 0)) :
            k \in DOMAIN FirstStored(name).trades}

\* C28: first write wins. When every result stored for a strategy covers the
\* same date range, the summary row, the daily values and the trades the
\* store holds for the strategy are those of the first result stored, whatever
\* the later results were.
C28_FirstWriteWins ==
    \A name \in StrategyNames :
        (StoredAt(name) # {} /\ SameRange(name)) =>
            /\ SummaryIsFirst(name)
            /\ ValuesAreFirst(name)
            /\ TradesAreFirst(name)

(***************************************************************************)
(* Properties of the market data manager.                                  *)
(***************************************************************************)
\* the cached rows of the last request, as a table
CachedRows ==
    [d \in CachedDates(market_data.cache, market_data.start_date,
                       market_data.end_date) |-> market_data.cache[d].price]

\* the cache has rows for the last request and all are older than the cache
\* duration
OnlyStaleRows ==
    /\ DOMAIN CachedRows # {}
    /\ ~IsCacheValid(market_data.cache, market_data.start_date,
                     market_data.end_date, market_data.clock)

\* C30: stale-cache fallback. A get_price_data call whose fetch returned an
\* empty table, made when the cache holds rows for the request that are older
\* than the cache duration, returns those cached rows.
C30_StaleCacheFallback ==
    (/\ market_data.called
     /\ market_data.fetched
     /\ market_data.fresh_data = EmptyTable
     /\ OnlyStaleRows)
    => market_data.returned = CachedRows

(***************************************************************************)
(* Properties of two runs whose prices differ.                             *)
(***************************************************************************)
\* a trade without its quantity and its price
TradeValueOf(trade) ==
    [symbol |-> trade.symbol, action |-> trade.action, value |-> trade.value,
     trade_date |-> trade.trade_date]

RECURSIVE AloneFrom(_)
AloneFrom(l) ==
    IF l.i = Len(l.dates) THEN l
    ELSE AloneFrom(
             LocalsAfterDay(l, calc[<<l.run.strategy_name,
                                     LocUpTo(ConcurrentTable, l.dates[l.i + 1])>>]))

\* the result of the run of a call executed alone
AloneResults(p) ==
    LocalResults(AloneFrom(LocalsAtStart(p, runs[p].run.initial_capital)))

\* the rows of a table among the rows a run persists
RowsFor(rows, table_name) ==
    {Payload(rows[k].row) :
        k \in {j \in DOMAIN rows : rows[j].table_name = table_name}}

\* the events of a strategy in backtest_traces, in the order they were logged
TracesOf(p) ==
    Pick(backtest_traces,
         {k \in DOMAIN backtest_traces : backtest_traces[k].strategy_name = p}, 1)

\* a returned call has the results of the run alone, and the store has the
\* rows that the run alone persists
SameAsAlone(p) ==
    LET alone == AloneResults(p)
        rows == RowsToStore(p, alone, 0)
    IN  /\ runs[p].results = alone
        /\ PayloadsOf(backtest_results, p) = RowsFor(rows, "backtest_results")
        /\ PayloadsOf(tbl_portfolio_values, p) = RowsFor(rows, "portfolio_values")
        /\ PayloadsOf(tbl_trades, p) = RowsFor(rows, "trades")
        /\ TracesOf(p) = runs[p].logged

\* a step assigns the locals of at most one call
OneCallSteps ==
    \A p, q \in DOMAIN runs :
        (p # q /\ runs'[p] # runs[p]) => runs'[q] = runs[q]

\* C23: runs are independent under concurrency. Whatever the interleaving of
\* the loop iterations and store statements of run_backtest calls of
\* different strategies, a call that returned has the trajectory, trades and
\* metrics, and the store has the rows, of the same run executed alone, and
\* no step of a call assigns the locals of another call.
C23_RunsIndependent ==
    /\ [](\A p \in DOMAIN runs : runs[p].pc = "done" => SameAsAlone(p))
    /\ [][OneCallSteps]_vars

\* two calls returned, both traded on a day, and their statements were
\* interleaved: the trades table has a row of one call between two rows of the
\* other, and so has backtest_traces
C23_Witness ==
    /\ \A p \in ConcurrentNames : p \in DOMAIN runs /\ runs[p].pc = "done"
    /\ \E j, k, m \in DOMAIN tbl_trades :
           /\ j < k /\ k < m
           /\ tbl_trades[j].strategy_name = tbl_trades[m].strategy_name
           /\ tbl_trades[j].strategy_name # tbl_trades[k].strategy_name
    /\ \E j, k, m \in DOMAIN backtest_traces :
           /\ j < k /\ k < m
           /\ \A x \in {j, k, m} : backtest_traces[x].category = "TRADE"
           /\ backtest_traces[j].strategy_name = backtest_traces[m].strategy_name
           /\ backtest_traces[j].strategy_name # backtest_traces[k].strategy_name
====
